---- MODULE Spec2Model ----
(***************************************************************************)
(* Verification model of installer-analyzer's detection engine:           *)
(*   - the analyzer protocol and AnalyzerFactory::create_analyzer          *)
(*     (src/src/analyzers/mod.rs and the per-format analyzers),            *)
(*   - format classification (common::detect_installer_format),            *)
(*   - the two PE checks (common::is_pe_file, MetadataExtractor),          *)
(*   - the chunked scanner common::search_file_content.                    *)
(*                                                                         *)
(* Files of the dispatch part are described by the facts the probes read:  *)
(* the path (for its extension), what the path names on disk, the header   *)
(* signature, and which signature strings occur in the content.  Files of  *)
(* the PE part and of the scanner part are byte sequences.                 *)
(***************************************************************************)
EXTENDS Integers, Sequences, FiniteSets, TLC

VARIABLES
    file,          \* dispatch / protocol: the file the path names
    pc,            \* create_analyzer: "probing" or "done"
    idx,           \* create_analyzer: index of the next candidate
    probed,        \* create_analyzer: probe calls made so far, in order
    result,        \* create_analyzer: the returned Result
    who,           \* protocol: the analyzer under call
    canRes,        \* protocol: what can_analyze returned
    metaRes,       \* protocol: what extract_metadata returned
    peFile,        \* PE checks: the bytes of the file
    commonPe,      \* PE checks: what common::is_pe_file returned
    extractorPe,   \* PE checks: what MetadataExtractor::is_pe_file returned
    content,       \* search_file_content: the bytes of the file
    patterns,      \* search_file_content: the requested patterns
    position,      \* search_file_content: offset of the next chunk
    overlap_buffer,\* search_file_content: tail of the previous chunk
    search_buffer, \* search_file_content: the buffer searched last
    found_patterns,\* search_file_content: the patterns found so far
    spc,           \* search_file_content: "loop", "exit" or "done"
    dfiles,        \* detect_installer_format: two files with the same bytes
    dres,          \* detect_installer_format: the Result for each of them
    directories,   \* MSI tables: the Directory rows
    files,         \* MSI tables: the File rows
    tpc,           \* MSI tables: position in convert_to_file_entries
    dir_map,       \* build_directory_hierarchy: id -> decoded name
    parent_map,    \* build_directory_hierarchy: id -> parent id
    pending,       \* build_directory_hierarchy: ids not yet resolved
    dir_id,        \* build_directory_hierarchy: the id being resolved
    current_id,    \* resolve_directory_path: the id the walk is at
    path_parts,    \* resolve_directory_path: names collected so far
    turn,          \* resolve_directory_path: parity of the loop iterations made
    resolved_paths,\* build_directory_hierarchy: id -> resolved path
    values_order,  \* iteration order of the finished hierarchy map
    file_entries,  \* convert_to_file_entries: the entries pushed so far
    entries,       \* MSI registry: the Registry rows
    operations,    \* convert_to_registry_operations: the returned operations
    ridx,          \* convert_to_registry_operations: rows converted so far
    rpc,           \* convert_to_registry_operations: "loop" or "done"
    value_str,     \* parse_registry_value: the value string
    parsed,        \* parse_registry_value: the returned pair
    root,          \* format_registry_key: the root code
    key_path,      \* format_registry_key: the returned key path
    xop,           \* MSI extraction: which extract_* call runs
    epc,           \* MSI extraction: position in the call
    queries,       \* MSI extraction: table queries still to run
    handles,       \* MSI extraction: every MSIHANDLE acquired, with its close count
    db,            \* MSI extraction: the MsiDatabase held, as a handle id
    view,          \* MSI extraction: the MsiView held, as a handle id
    records,       \* MSI extraction: the MsiRecords held, as handle ids
    opened,        \* MSI extraction: outcome of MsiDatabase::open
    xres,          \* MSI extraction: the returned Result
    apc,           \* analyze: position in the call
    acalls,        \* analyze: the extract_* calls made so far, in order
    ares,          \* analyze: the returned Result
    cfiles,        \* concurrent extractions: the MSI store of each file
    ctasks,        \* concurrent extractions: the state of each task
    chandles       \* concurrent extractions: every MSIHANDLE acquired

dispatchVars == <<file, pc, idx, probed, result>>
protocolVars == <<who, canRes, metaRes>>
peVars == <<peFile, commonPe, extractorPe>>
scanVars == <<content, patterns, position, overlap_buffer, search_buffer, found_patterns, spc>>
detectVars == <<dfiles, dres>>
tableVars == <<directories, files, tpc, dir_map, parent_map, pending, dir_id, current_id,
               path_parts, turn, resolved_paths, values_order, file_entries>>
registryVars == <<entries, operations, ridx, rpc>>
valueVars == <<value_str, parsed, root, key_path>>
extractVars == <<xop, epc, queries, handles, db, view, records, opened, xres>>
msiVars == <<tableVars, registryVars, valueVars, extractVars>>

\* The MSI engine at rest: the values its variables keep while another part
\* of the program is under study.
IdleTables ==
    /\ directories = <<>> /\ files = <<>> /\ tpc = "idle"
    /\ dir_map = <<>> /\ parent_map = <<>> /\ pending = {}
    /\ dir_id = "" /\ current_id = "" /\ path_parts = <<>> /\ turn = 0
    /\ resolved_paths = <<>> /\ values_order = <<>> /\ file_entries = <<>>

IdleRegistry ==
    /\ entries = <<>> /\ operations = <<>> /\ ridx = 0 /\ rpc = "idle"

IdleValue ==
    /\ value_str = <<>> /\ parsed = [type |-> "None"] /\ root = 0 /\ key_path = ""

IdleExtract ==
    /\ xop = "none" /\ epc = "idle" /\ queries = <<>> /\ handles = <<>>
    /\ db = 0 /\ view = 0 /\ records = <<>> /\ opened = "none"
    /\ xres = [tag |-> "None"]

IdleMsi == IdleTables /\ IdleRegistry /\ IdleValue /\ IdleExtract

runVars == <<apc, acalls, ares>>
concVars == <<cfiles, ctasks, chandles>>
restVars == <<runVars, concVars>>

\* analyze and the concurrent extractions at rest.
IdleRun == apc = "idle" /\ acalls = <<>> /\ ares = [tag |-> "None"]

IdleConc == cfiles = <<>> /\ ctasks = <<>> /\ chandles = <<>>

IdleRest == IdleRun /\ IdleConc

----------------------------------------------------------------------------
(* Files as seen by the probes *)

\* Paths the caller may pass; only the extension matters to the code.
Paths == {"a.msi", "a.exe", "a.whl", "a.msix", "a.MSIX", "a.appx", "a.txt", "a"}

\* Path::extension(): the text after the last dot, absent without a dot.
extension(p) ==
    CASE p = "a.msi"  -> "msi"
      [] p = "a.exe"  -> "exe"
      [] p = "a.whl"  -> "whl"
      [] p = "a.msix" -> "msix"
      [] p = "a.MSIX" -> "MSIX"
      [] p = "a.appx" -> "appx"
      [] p = "a.txt"  -> "txt"
      [] OTHER        -> "none"

\* str::to_lowercase() on the extensions above.
to_lowercase(e) == IF e = "MSIX" THEN "msix" ELSE e

\* What the path names: a regular file, a directory, or nothing.
Kinds == {"file", "dir", "missing"}

\* The first bytes of the file: OLE compound document, MZ, ZIP, 7z, other.
Headers == {"ole", "mz", "zip", "7z", "other"}

\* Signature strings that may occur in a file's content (none of them is a
\* substring of another, so any subset is a possible content).
ContentTokens ==
    {"WiX Toolset", "NSIS Error", "Squirrel", "Inno Setup", "InnoSetupVersion", "InstallShield"}

Files == [path : Paths, kind : Kinds, header : Headers, content : SUBSET ContentTokens]

Bool(b) == IF b THEN "true" ELSE "false"

ErrKinds == {"FileNotFound", "InvalidFormat", "Io", "UnsupportedFormat", "Generic"}

----------------------------------------------------------------------------
(* common.rs helpers used by the probes *)

\* validate_file: Err(FileNotFound) if the path does not exist,
\* Err(InvalidFormat) if it is not a file, otherwise Ok.
validate_file(f) ==
    IF f.kind = "missing" THEN "FileNotFound"
    ELSE IF f.kind # "file" THEN "InvalidFormat"
    ELSE "ok"

\* read_file_header: opening or reading anything but a regular file fails.
read_file_header(f) == IF f.kind = "file" THEN f.header ELSE "Io"

\* common::is_pe_file as used by the probes: the MZ test on the header.
is_pe_file_of(f) ==
    IF read_file_header(f) = "Io" THEN "Io" ELSE Bool(read_file_header(f) = "mz")

\* The possible values of `!search_file_content(path, patterns)?.is_empty()`.
\* A pattern that is absent is never reported.  A pattern that is present is
\* reported when the reads are complete, but search_file_content advances
\* `position` by the requested chunk size even when read() returned fewer
\* bytes, so an occurrence can be skipped and the pattern go unreported.
has_match(f, pats) ==
    IF f.kind # "file" THEN {"Io"}
    ELSE IF f.content \cap pats = {} THEN {"false"}
    ELSE {"true", "false"}

\* ArchiveParser::detect_format
detect_format(f) ==
    IF read_file_header(f) = "Io" THEN "Io"
    ELSE IF f.header = "zip" THEN "Zip"
    ELSE IF f.header = "7z" THEN "SevenZ"
    ELSE "Unknown"

----------------------------------------------------------------------------
(* The pattern lists of the probes *)

wix_patterns ==
    {"WiX Toolset", "Windows Installer XML", "WixToolset",
     "Microsoft.Tools.WindowsInstallerXml", "WiX v3", "WiX v4", "WiX v5",
     "wix.exe", "candle.exe", "light.exe", "WixUI", "WixUIExtension",
     "WixUtilExtension", "WixNetFxExtension", "WixFirewallExtension"}

nsis_patterns ==
    {"Nullsoft.NSIS.exehead", "NullsoftInst", "NSIS Error", "Nullsoft Install System"}

squirrel_patterns ==
    {"Squirrel", "electron-builder", "electron-updater", "Update.exe",
     "SquirrelSetup", "app-update.yml", "latest.yml", "RELEASES", "nupkg",
     "Electron", "electron.exe", "resources\\app.asar", "resources/app.asar",
     "autoUpdater", "checkForUpdates", "quitAndInstall",
     "GitHub\\SquirrelTemp", "GitHub/SquirrelTemp"}

inno_patterns ==
    {"Inno Setup Setup Data", "JR.Inno.Setup", "InnoSetupVersion", "Inno Setup",
     "Jordan Russell"}

installshield_patterns ==
    {"InstallShield", "InstallScript", "Stirling Technologies", "Macrovision",
     "Flexera Software", "InstallShield Setup Launcher", "InstallShield Wizard",
     "Setup.exe"}

----------------------------------------------------------------------------
(* can_analyze of every analyzer.  Each operator yields the set of possible *)
(* outcomes [ans, inner]: ans is "true", "false" or the error returned,     *)
(* inner lists the probes of other analyzers made inside the call.          *)

Out(ans, inner) == [ans |-> ans, inner |-> inner]
Call(a, ans) == [analyzer |-> a, ans |-> ans]

\* MsiAnalyzer::has_msi_signature / can_analyze: both branches of the
\* extension test end in the signature check.
MsiAnalyzer_can_analyze(f) ==
    IF read_file_header(f) = "Io" THEN {Out("Io", <<>>)}
    ELSE {Out(Bool(f.header = "ole"), <<>>)}

\* WixAnalyzer::can_analyze with is_wix_msi
WixAnalyzer_can_analyze(f) ==
    IF validate_file(f) # "ok" THEN {Out(validate_file(f), <<>>)}
    ELSE UNION {
        IF m.ans = "true"
        THEN {Out(s, <<Call("MSI", m.ans)>>) : s \in has_match(f, wix_patterns)}
        ELSE {Out(m.ans, <<Call("MSI", m.ans)>>)}
        : m \in MsiAnalyzer_can_analyze(f) }

\* WheelAnalyzer::can_analyze with WheelParser::is_wheel_file
WheelAnalyzer_can_analyze(f) ==
    IF validate_file(f) # "ok" THEN {Out(validate_file(f), <<>>)}
    ELSE IF extension(f.path) # "whl" THEN {Out("false", <<>>)}
    ELSE IF detect_format(f) = "Io" THEN {Out("Io", <<>>)}
    ELSE {Out(Bool(detect_format(f) = "Zip"), <<>>)}

\* MsixAnalyzer::can_analyze with MsixParser::is_msix_file
MsixAnalyzer_can_analyze(f) ==
    IF validate_file(f) # "ok" THEN {Out(validate_file(f), <<>>)}
    ELSE IF to_lowercase(extension(f.path)) \notin {"msix", "appx"} THEN {Out("false", <<>>)}
    ELSE IF detect_format(f) = "Io" THEN {Out("Io", <<>>)}
    ELSE {Out(Bool(detect_format(f) = "Zip"), <<>>)}

\* InstallShieldAnalyzer::can_analyze with InstallShieldParser::is_installshield_file
InstallShieldAnalyzer_can_analyze(f) ==
    IF validate_file(f) # "ok" THEN {Out(validate_file(f), <<>>)}
    ELSE IF is_pe_file_of(f) # "true" THEN {Out(is_pe_file_of(f), <<>>)}
    ELSE {Out(s, <<>>) : s \in has_match(f, installshield_patterns)}

\* NsisAnalyzer::can_analyze with has_nsis_signature: the extension test
\* comes first and touches no file.
NsisAnalyzer_can_analyze(f) ==
    IF extension(f.path) # "exe" THEN {Out("false", <<>>)}
    ELSE IF validate_file(f) # "ok" THEN {Out(validate_file(f), <<>>)}
    ELSE IF is_pe_file_of(f) # "true" THEN {Out(is_pe_file_of(f), <<>>)}
    ELSE {Out(s, <<>>) : s \in has_match(f, nsis_patterns)}

\* SquirrelAnalyzer::can_analyze with is_squirrel_installer
SquirrelAnalyzer_can_analyze(f) ==
    IF validate_file(f) # "ok" THEN {Out(validate_file(f), <<>>)}
    ELSE UNION {
        IF n.ans = "true"
        THEN {Out(s, <<Call("NSIS", n.ans)>>) : s \in has_match(f, squirrel_patterns)}
        ELSE {Out(n.ans, <<Call("NSIS", n.ans)>>)}
        : n \in NsisAnalyzer_can_analyze(f) }

\* InnoAnalyzer::can_analyze with has_inno_signature
InnoAnalyzer_can_analyze(f) ==
    IF extension(f.path) # "exe" THEN {Out("false", <<>>)}
    ELSE IF validate_file(f) # "ok" THEN {Out(validate_file(f), <<>>)}
    ELSE IF is_pe_file_of(f) # "true" THEN {Out(is_pe_file_of(f), <<>>)}
    ELSE {Out(s, <<>>) : s \in has_match(f, inno_patterns)}

\* ArchiveAnalyzer::can_analyze with ArchiveParser::is_archive_file
ArchiveAnalyzer_can_analyze(f) ==
    IF validate_file(f) # "ok" THEN {Out(validate_file(f), <<>>)}
    ELSE IF detect_format(f) = "Io" THEN {Out("Io", <<>>)}
    ELSE {Out(Bool(detect_format(f) # "Unknown"), <<>>)}

\* The implementations of the InstallerAnalyzer trait.
AllAnalyzers ==
    {"WiX", "MSI", "PythonWheel", "MSIX", "InstallShield", "Squirrel", "NSIS",
     "InnoSetup", "Archive"}

\* InstallerAnalyzer::can_analyze, dispatched on the implementation.
can_analyze(a, f) ==
    CASE a = "WiX"           -> WixAnalyzer_can_analyze(f)
      [] a = "MSI"           -> MsiAnalyzer_can_analyze(f)
      [] a = "PythonWheel"   -> WheelAnalyzer_can_analyze(f)
      [] a = "MSIX"          -> MsixAnalyzer_can_analyze(f)
      [] a = "InstallShield" -> InstallShieldAnalyzer_can_analyze(f)
      [] a = "Squirrel"      -> SquirrelAnalyzer_can_analyze(f)
      [] a = "NSIS"          -> NsisAnalyzer_can_analyze(f)
      [] a = "InnoSetup"     -> InnoAnalyzer_can_analyze(f)
      [] OTHER               -> ArchiveAnalyzer_can_analyze(f)

\* InstallerAnalyzer::format of every implementation.
format(a) == IF a = "Archive" THEN "Unknown" ELSE a

----------------------------------------------------------------------------
(* extract_metadata of every analyzer: the set of possible results, either  *)
(* Err or Ok with the format tag stored in InstallerMetadata.format.        *)

\* No Result yet: the call has not returned.
NoResult == [tag |-> "None"]

MetaOk(fmt) == [tag |-> "Ok", format |-> fmt]
MetaErr(kind) == [tag |-> "Err", kind |-> kind]

\* MsiAnalyzer::extract_metadata / extract_msi_metadata: a store that fails
\* to open or to answer the Property query is logged, not returned.
MsiAnalyzer_extract_metadata(f) ==
    IF validate_file(f) # "ok" THEN {MetaErr(validate_file(f))}
    ELSE {MetaOk("MSI")}

\* NsisAnalyzer::extract_metadata / extract_nsis_metadata: the parser may fail.
NsisAnalyzer_extract_metadata(f) ==
    IF validate_file(f) # "ok" THEN {MetaErr(validate_file(f))}
    ELSE {MetaOk("NSIS"), MetaErr("Generic")}

\* A derived analyzer that forgets to overwrite the delegate's format tag.
WixAnalyzer_extract_metadata_no_override(f) ==
    IF validate_file(f) # "ok" THEN {MetaErr(validate_file(f))}
    ELSE MsiAnalyzer_extract_metadata(f)

\* WixAnalyzer::extract_metadata / extract_wix_metadata: the MSI metadata
\* with the format overwritten by WiX.
WixAnalyzer_extract_metadata(f) ==
    IF validate_file(f) # "ok" THEN {MetaErr(validate_file(f))}
    ELSE {IF m.tag = "Ok" THEN MetaOk("WiX") ELSE m : m \in MsiAnalyzer_extract_metadata(f)}

\* SquirrelAnalyzer::extract_metadata / extract_squirrel_metadata: the NSIS
\* metadata with the format overwritten by Squirrel.
SquirrelAnalyzer_extract_metadata(f) ==
    IF validate_file(f) # "ok" THEN {MetaErr(validate_file(f))}
    ELSE {IF m.tag = "Ok" THEN MetaOk("Squirrel") ELSE m : m \in NsisAnalyzer_extract_metadata(f)}

\* The analyzers that build InstallerMetadata themselves with a constant
\* format: InnoSetup, InstallShield, PythonWheel, MSIX (their parsers may
\* fail), and Archive (every branch of its match yields Unknown).
own_extract_metadata(a, f) ==
    IF validate_file(f) # "ok" THEN {MetaErr(validate_file(f))}
    ELSE {MetaOk(IF a = "Archive" THEN "Unknown" ELSE a), MetaErr("Generic")}

\* InstallerAnalyzer::extract_metadata, dispatched on the implementation.
extract_metadata(a, f) ==
    CASE a = "WiX"      -> WixAnalyzer_extract_metadata(f)
      [] a = "MSI"      -> MsiAnalyzer_extract_metadata(f)
      [] a = "Squirrel" -> SquirrelAnalyzer_extract_metadata(f)
      [] a = "NSIS"     -> NsisAnalyzer_extract_metadata(f)
      [] OTHER          -> own_extract_metadata(a, f)

----------------------------------------------------------------------------
(* AnalyzerFactory::create_analyzer *)

\* A candidate order that tries the generic base formats before the formats
\* derived from them.
ProbeOrder_base_first ==
    <<"MSI", "WiX", "PythonWheel", "MSIX", "InstallShield", "NSIS", "Squirrel",
      "InnoSetup">>

\* A candidate order that tries the PE-based generic formats before the
\* extension-specific ones.
ProbeOrder_generic_first ==
    <<"WiX", "MSI", "NSIS", "InnoSetup", "PythonWheel", "MSIX", "InstallShield",
      "Squirrel">>

\* A candidate order that ends with the archive analyzer.
ProbeOrder_with_archive ==
    <<"WiX", "MSI", "PythonWheel", "MSIX", "InstallShield", "Squirrel", "NSIS",
      "InnoSetup", "Archive">>

\* The order in which create_analyzer tries the analyzers.
ProbeOrder ==
    <<"WiX", "MSI", "PythonWheel", "MSIX", "InstallShield", "Squirrel", "NSIS",
      "InnoSetup">>

ResOk(a) == [tag |-> "Ok", analyzer |-> a]
ResErr(kind, msg) == [tag |-> "Err", kind |-> kind, msg |-> msg]

\* The text of an error a failed probe returns (core/error.rs, validate_file).
probe_error(kind, f) ==
    CASE kind = "FileNotFound"  -> ResErr(kind, <<"File not found: ", f.path>>)
      [] kind = "InvalidFormat" -> ResErr(kind, <<"Path is not a file: ", f.path>>)
      [] OTHER                  -> ResErr(kind, <<"I/O error">>)

\* An unsupported-format error that does not say which file it is about.
no_analyzer_error_anonymous(f) ==
    ResErr("UnsupportedFormat", <<"No analyzer found">>)

\* The error create_analyzer ends with when no candidate accepted.
no_analyzer_error(f) ==
    ResErr("UnsupportedFormat", <<"No analyzer found for file: ", f.path>>)

\* A dispatcher that treats a failing probe like a rejecting one.
after_probe_swallow(i, o, f) ==
    IF o.ans = "true"
    THEN [pc |-> "done", idx |-> i, result |-> ResOk(ProbeOrder[i])]
    ELSE IF i < Len(ProbeOrder)
    THEN [pc |-> "probing", idx |-> i + 1, result |-> NoResult]
    ELSE [pc |-> "done", idx |-> i, result |-> no_analyzer_error(f)]

\* What create_analyzer does with the outcome o of its i-th probe:
\* `if x.can_analyze(path).await? { return Ok(Box::new(x)) }`, and the final
\* Err after the last candidate.
after_probe(i, o, f) ==
    IF o.ans = "true"
    THEN [pc |-> "done", idx |-> i, result |-> ResOk(ProbeOrder[i])]
    ELSE IF o.ans # "false"
    THEN [pc |-> "done", idx |-> i, result |-> probe_error(o.ans, f)]
    ELSE IF i < Len(ProbeOrder)
    THEN [pc |-> "probing", idx |-> i + 1, result |-> NoResult]
    ELSE [pc |-> "done", idx |-> i, result |-> no_analyzer_error(f)]

InitDispatch ==
    /\ IdleMsi /\ IdleRest
    /\ file \in Files
    /\ pc = "probing"
    /\ idx = 1
    /\ probed = <<>>
    /\ result = NoResult
    /\ who = "none" /\ canRes = "none" /\ metaRes = NoResult
    /\ peFile = <<>> /\ commonPe = "none" /\ extractorPe = "none"
    /\ content = <<>> /\ patterns = <<>> /\ position = 0 /\ overlap_buffer = <<>>
    /\ search_buffer = <<>> /\ found_patterns = <<>> /\ spc = "done"
    /\ dfiles = <<>> /\ dres = <<>>

\* One candidate of create_analyzer: construct it, await its can_analyze,
\* return or go on.
create_analyzer ==
    /\ pc = "probing"
    /\ \E o \in can_analyze(ProbeOrder[idx], file) :
          /\ probed' = Append(probed,
                 [analyzer |-> ProbeOrder[idx], ans |-> o.ans, inner |-> o.inner])
          /\ pc' = after_probe(idx, o, file).pc
          /\ idx' = after_probe(idx, o, file).idx
          /\ result' = after_probe(idx, o, file).result
    /\ UNCHANGED <<file, protocolVars, peVars, scanVars, detectVars, msiVars, restVars>>

\* The environment: the file is deleted while the dispatcher is between two
\* awaits.
remove_file ==
    /\ pc = "probing"
    /\ file.kind = "file"
    /\ file' = [file EXCEPT !.kind = "missing"]
    /\ UNCHANGED <<pc, idx, probed, result, protocolVars, peVars, scanVars, detectVars, msiVars, restVars>>

NextDispatch == create_analyzer \/ remove_file

vars == <<file, pc, idx, probed, result, who, canRes, metaRes, peFile, commonPe, extractorPe,
          content, patterns, position, overlap_buffer, search_buffer, found_patterns, spc,
          dfiles, dres, msiVars, restVars>>

SpecDispatch == InitDispatch /\ [][NextDispatch]_vars

Spec == SpecDispatch

----------------------------------------------------------------------------
(* The analyzer protocol: a caller holding any analyzer calls can_analyze   *)
(* and then extract_metadata on the same path.                              *)

InitProtocol ==
    /\ IdleMsi /\ IdleRest
    /\ file \in Files
    /\ pc = "done" /\ idx = 1 /\ probed = <<>> /\ result = NoResult
    /\ who = "none" /\ canRes = "none" /\ metaRes = NoResult
    /\ peFile = <<>> /\ commonPe = "none" /\ extractorPe = "none"
    /\ content = <<>> /\ patterns = <<>> /\ position = 0 /\ overlap_buffer = <<>>
    /\ search_buffer = <<>> /\ found_patterns = <<>> /\ spc = "done"
    /\ dfiles = <<>> /\ dres = <<>>

call_can_analyze ==
    /\ who = "none"
    /\ \E a \in AllAnalyzers : \E o \in can_analyze(a, file) :
          /\ who' = a
          /\ canRes' = o.ans
    /\ UNCHANGED <<metaRes, dispatchVars, peVars, scanVars, detectVars, msiVars, restVars>>

call_extract_metadata ==
    /\ who # "none"
    /\ metaRes = NoResult
    /\ \E m \in extract_metadata(who, file) : metaRes' = m
    /\ UNCHANGED <<who, canRes, dispatchVars, peVars, scanVars, detectVars, msiVars, restVars>>

NextProtocol == call_can_analyze \/ call_extract_metadata

SpecProtocol == InitProtocol /\ [][NextProtocol]_vars

----------------------------------------------------------------------------
(* Properties of create_analyzer *)

ProbedAt(a, ans) == \E i \in 1..Len(probed) : probed[i].analyzer = a /\ probed[i].ans = ans

\* The i-th probe accepted, and so did the base-format probe it made inside.
BothAccepted(i, derived, base) ==
    /\ probed[i].analyzer = derived
    /\ probed[i].ans = "true"
    /\ probed[i].inner = <<Call(base, "true")>>

\* C1: when create_analyzer has returned, a file that the WiX probe accepted
\* (which includes the MSI probe made inside it accepting) was classified WiX,
\* and a file the Squirrel probe accepted (including the NSIS probe inside it)
\* was classified Squirrel; the MSI analyzer is returned only after the WiX
\* probe rejected the file, the NSIS analyzer only after the Squirrel probe
\* rejected it.
C1_DerivedBeforeBase ==
    pc = "done" =>
        /\ \A i \in 1..Len(probed) :
              /\ BothAccepted(i, "WiX", "MSI") => result = ResOk("WiX")
              /\ BothAccepted(i, "Squirrel", "NSIS") => result = ResOk("Squirrel")
        /\ result = ResOk("MSI") => ProbedAt("WiX", "false")
        /\ result = ResOk("NSIS") => ProbedAt("Squirrel", "false")

C1_Witness ==
    /\ pc = "done"
    /\ \E i \in 1..Len(probed) : BothAccepted(i, "Squirrel", "NSIS")
    /\ result = ResOk("Squirrel")

ExtensionSpecific == {"PythonWheel", "MSIX"}
ExecutableFormats == {"InstallShield", "Squirrel", "NSIS", "InnoSetup"}
ProbedLast == {"NSIS", "InnoSetup"}

\* C2: the probes made so far are the first candidates of the one fixed
\* order, an accepting probe is the last probe made and its analyzer is the
\* one returned after only rejections, PythonWheel and MSIX are probed before
\* any executable format, and NSIS and InnoSetup are probed only after every
\* other candidate answered false.
C2_FixedOrderFirstAcceptor ==
    /\ Len(probed) <= Len(ProbeOrder)
    /\ \A i \in 1..Len(probed) :
          /\ probed[i].analyzer = ProbeOrder[i]
          /\ probed[i].ans = "true" =>
                /\ i = Len(probed)
                /\ pc = "done"
                /\ result = ResOk(probed[i].analyzer)
                /\ \A j \in 1..(i - 1) : probed[j].ans = "false"
          /\ probed[i].analyzer \in ExecutableFormats =>
                \A a \in ExtensionSpecific : \E j \in 1..(i - 1) : probed[j].analyzer = a
          /\ probed[i].analyzer \in ProbedLast =>
                \A a \in (AllAnalyzers \ {"Archive"}) \ ProbedLast :
                    \E j \in 1..(i - 1) : probed[j].analyzer = a /\ probed[j].ans = "false"
    /\ result.tag = "Ok" =>
          /\ Len(probed) >= 1
          /\ probed[Len(probed)] .ans = "true"

C2_Witness ==
    /\ result = ResOk("InnoSetup")
    /\ Len(probed) = 8

\* C3: a probe that returned an error is the last probe made, and
\* create_analyzer has returned that error and no analyzer; after a probe
\* that returned false (other than the last candidate's) the dispatch is at
\* the next candidate or further.
C3_ProbeErrorAborts ==
    \A i \in 1..Len(probed) :
        /\ probed[i].ans \in ErrKinds =>
              /\ i = Len(probed)
              /\ pc = "done"
              /\ result.tag = "Err"
              /\ result.kind = probed[i].ans
        /\ (probed[i].ans = "false" /\ i < Len(ProbeOrder)) =>
              \/ Len(probed) > i
              \/ pc = "probing" /\ idx = i + 1 /\ result = NoResult

C3_Witness ==
    /\ pc = "done"
    /\ Len(probed) = 3
    /\ probed[1].ans = "false" /\ probed[2].ans = "false"
    /\ probed[3].ans = "FileNotFound"
    /\ result.tag = "Err" /\ result.kind = "FileNotFound"

AllRejected ==
    /\ Len(probed) = Len(ProbeOrder)
    /\ \A i \in 1..Len(probed) : probed[i].ans = "false"

\* C4: when every probe returned false, create_analyzer returns an
\* UnsupportedFormat error whose message contains the path, not an analyzer.
C4_UnsupportedNamesPath ==
    AllRejected =>
        /\ pc = "done"
        /\ result.tag = "Err"
        /\ result.kind = "UnsupportedFormat"
        /\ \E k \in 1..Len(result.msg) : result.msg[k] = file.path

C4_Witness ==
    /\ AllRejected
    /\ file.path = "a.exe"
    /\ result.kind = "UnsupportedFormat"

----------------------------------------------------------------------------
(* Properties of the analyzer protocol *)

\* C5: for every analyzer, when can_analyze returned true and the following
\* extract_metadata succeeded, the format in the metadata is the analyzer's
\* format().
C5_MetadataFormatMatches ==
    (canRes = "true" /\ metaRes.tag = "Ok") => metaRes.format = format(who)

C5_Witness ==
    /\ who = "WiX"
    /\ canRes = "true"
    /\ metaRes = MetaOk("WiX")

----------------------------------------------------------------------------
(* The two PE checks, on files given byte by byte *)

\* "MZ" and "PE\0\0"
MZ == <<77, 90>>
PE_SIGNATURE == <<80, 69, 0, 0>>

\* The number of header bytes MetadataExtractor::is_pe_file reads, which is
\* the size of the DOS header; its last four bytes hold e_lfanew.
DOS_HEADER_SIZE == 64

\* The longest file of the PE part.
MaxPeLen == 132

PeLens == {0, 1, 2, 3, DOS_HEADER_SIZE - 1, DOS_HEADER_SIZE, DOS_HEADER_SIZE + 4, MaxPeLen}
PeFirstTwo == {MZ, <<78, 111>>, <<77, 0>>}
PeOffsets == {4, 56, 60, 64, 128, 16777216}
PeSigAt == {-1, 4, 56, 60, 64, 128}

\* u32::to_le_bytes: byte k (0..3) of v.
le_byte(v, k) == (v \div (256 ^ k)) % 256

\* u32::from_le_bytes
from_le_bytes(b0, b1, b2, b3) == b0 + 256 * b1 + 65536 * b2 + 16777216 * b3

\* The file of n bytes that starts with `first`, stores e_lfanew in bytes
\* 60..63 and carries "PE\0\0" at offset sigAt (nowhere if sigAt = -1), as
\* far as these fit into n bytes; every other byte is 0.
PeFileOf(n, first, e_lfanew, sigAt) ==
    [i \in 1..n |->
        LET k == i - 1 IN
        IF k < 2 THEN first[k + 1]
        ELSE IF k >= DOS_HEADER_SIZE - 4 /\ k < DOS_HEADER_SIZE THEN le_byte(e_lfanew, k - (DOS_HEADER_SIZE - 4))
        ELSE IF sigAt >= 0 /\ k >= sigAt /\ k < sigAt + 4 THEN PE_SIGNATURE[k - sigAt + 1]
        ELSE 0]

PeFiles ==
    {PeFileOf(n, first, off, sigAt) :
        n \in PeLens, first \in PeFirstTwo, off \in PeOffsets, sigAt \in PeSigAt}

\* read_file_header(path, size) on a readable file: the first `size` bytes,
\* fewer if the file is shorter.
header_bytes(bytes, size) ==
    SubSeq(bytes, 1, IF Len(bytes) < size THEN Len(bytes) ELSE size)

\* common::is_pe_file: reads two bytes and compares them with "MZ".
is_pe_file(bytes) ==
    LET header == header_bytes(bytes, 2) IN
    IF Len(header) >= 2
    THEN header[1] = 77 /\ header[2] = 90
    ELSE FALSE

\* MetadataExtractor::is_pe_file: reads the 64-byte DOS header and looks for
\* the PE signature at e_lfanew inside those 64 bytes.
MetadataExtractor_is_pe_file(bytes) ==
    LET header == header_bytes(bytes, DOS_HEADER_SIZE) IN
    IF Len(header) >= 2 /\ SubSeq(header, 1, 2) = MZ
    THEN IF Len(header) >= 64
         THEN LET pe_offset == from_le_bytes(header[61], header[62], header[63], header[64]) IN
              IF pe_offset < Len(header) - 4
              THEN SubSeq(header, pe_offset + 1, pe_offset + 4) = PE_SIGNATURE
              ELSE FALSE
         ELSE FALSE
    ELSE FALSE

InitPe ==
    /\ IdleMsi /\ IdleRest
    /\ peFile \in PeFiles
    /\ commonPe = "none" /\ extractorPe = "none"
    /\ file = [path |-> "a.exe", kind |-> "file", header |-> "mz", content |-> {}]
    /\ pc = "done" /\ idx = 1 /\ probed = <<>> /\ result = NoResult
    /\ who = "none" /\ canRes = "none" /\ metaRes = NoResult
    /\ content = <<>> /\ patterns = <<>> /\ position = 0 /\ overlap_buffer = <<>>
    /\ search_buffer = <<>> /\ found_patterns = <<>> /\ spc = "done"
    /\ dfiles = <<>> /\ dres = <<>>

call_is_pe_file ==
    /\ commonPe = "none"
    /\ commonPe' = Bool(is_pe_file(peFile))
    /\ UNCHANGED <<peFile, extractorPe, dispatchVars, protocolVars, scanVars, detectVars, msiVars, restVars>>

call_MetadataExtractor_is_pe_file ==
    /\ extractorPe = "none"
    /\ extractorPe' = Bool(MetadataExtractor_is_pe_file(peFile))
    /\ UNCHANGED <<peFile, commonPe, dispatchVars, protocolVars, scanVars, detectVars, msiVars, restVars>>

NextPe == call_is_pe_file \/ call_MetadataExtractor_is_pe_file

SpecPe == InitPe /\ [][NextPe]_vars

\* MZ at offset 0 and "PE\0\0" at the offset stored in bytes 60..63.
ValidPe(bytes) ==
    /\ Len(bytes) >= DOS_HEADER_SIZE
    /\ SubSeq(bytes, 1, 2) = MZ
    /\ LET off == from_le_bytes(bytes[61], bytes[62], bytes[63], bytes[64]) IN
          /\ off + 4 <= Len(bytes)
          /\ SubSeq(bytes, off + 1, off + 4) = PE_SIGNATURE

\* C7: a file with MZ at offset 0 and PE\0\0 at the offset stored in bytes
\* 60..63 is reported as PE by common::is_pe_file and by
\* MetadataExtractor::is_pe_file.
C7_ValidPeIsPe ==
    ValidPe(peFile) =>
        /\ commonPe \in {"none", "true"}
        /\ extractorPe \in {"none", "true"}

\* C8: a file shorter than the 64-byte DOS header is reported as PE by
\* neither check.
C8_ShortFileIsNotPe ==
    Len(peFile) < DOS_HEADER_SIZE =>
        /\ commonPe \in {"none", "false"}
        /\ extractorPe \in {"none", "false"}

----------------------------------------------------------------------------
(* common::search_file_content, one action per iteration of its loop.       *)
(* The sizes are scaled down from 1 MiB and 1 KiB; the code only relies on  *)
(* OVERLAP_SIZE < CHUNK_SIZE.                                                *)

CHUNK_SIZE == 4
OVERLAP_SIZE == 3

\* The longest file and the longest pattern list of the scanner part.
MaxFileLen == 7
MaxPatterns == 2

\* File bytes: 'a', 'b' and 0xFF, which is never valid in UTF-8.
ScanBytes == {97, 98, 255}

\* The requested patterns: "a", "ab", "bb", all shorter than OVERLAP_SIZE.
PatternPool == {<<97>>, <<97, 98>>, <<98, 98>>}

SeqsUpTo(S, n) == UNION {[1..k -> S] : k \in 0..n}

Min(a, b) == IF a < b THEN a ELSE b

\* String::from_utf8_lossy on the bytes above: an ASCII byte is its own
\* character, an invalid byte becomes U+FFFD.
from_utf8_lossy(bytes) ==
    [i \in 1..Len(bytes) |-> IF bytes[i] < 128 THEN bytes[i] ELSE 65533]

\* str::contains
contains(text, pat) ==
    \E i \in 0..(Len(text) - Len(pat)) : SubSeq(text, i + 1, i + Len(pat)) = pat

SeqContains(seq, x) == \E i \in 1..Len(seq) : seq[i] = x

\* The loop without the test `!found_patterns.contains(..)`.
RECURSIVE search_patterns_no_dedup(_, _, _, _)
search_patterns_no_dedup(text, pats, i, found) ==
    IF i > Len(pats) THEN found
    ELSE search_patterns_no_dedup(text, pats, i + 1,
             IF contains(text, pats[i])
             THEN Append(found, pats[i])
             ELSE found)

\* The `for pattern in patterns` loop from pattern i on: a pattern that the
\* text contains and that is not yet in found is pushed.
RECURSIVE search_patterns(_, _, _, _)
search_patterns(text, pats, i, found) ==
    IF i > Len(pats) THEN found
    ELSE search_patterns(text, pats, i + 1,
             IF contains(text, pats[i]) /\ ~SeqContains(found, pats[i])
             THEN Append(found, pats[i])
             ELSE found)

\* An overlap that keeps the whole chunk.
next_overlap_untrimmed(chunk, bytes_read, current_chunk_size, pos, file_size) ==
    IF bytes_read = current_chunk_size /\ pos + current_chunk_size < file_size
    THEN chunk
    ELSE <<>>

\* "Prepare overlap for next iteration": the last OVERLAP_SIZE bytes of the
\* chunk if the chunk was read in full and is not the last one.
next_overlap(chunk, bytes_read, current_chunk_size, pos, file_size) ==
    IF bytes_read = current_chunk_size /\ pos + current_chunk_size < file_size
    THEN LET overlap_start == IF Len(chunk) > OVERLAP_SIZE THEN Len(chunk) - OVERLAP_SIZE ELSE 0
         IN  SubSeq(chunk, overlap_start + 1, Len(chunk))
    ELSE <<>>

InitScan ==
    /\ IdleMsi /\ IdleRest
    /\ content \in SeqsUpTo(ScanBytes, MaxFileLen)
    /\ patterns \in SeqsUpTo(PatternPool, MaxPatterns)
    /\ position = 0
    /\ overlap_buffer = <<>>
    /\ search_buffer = <<>>
    /\ found_patterns = <<>>
    /\ spc = "loop"
    /\ file = [path |-> "a.exe", kind |-> "file", header |-> "mz", content |-> {}]
    /\ pc = "done" /\ idx = 1 /\ probed = <<>> /\ result = NoResult
    /\ who = "none" /\ canRes = "none" /\ metaRes = NoResult
    /\ peFile = <<>> /\ commonPe = "none" /\ extractorPe = "none"
    /\ dfiles = <<>> /\ dres = <<>>

\* One iteration of `while position < file_size`.  read() yields between one
\* byte and the requested number of bytes.
search_iteration ==
    /\ spc = "loop"
    /\ position < Len(content)
    /\ LET file_size == Len(content)
           remaining == file_size - position
           current_chunk_size == Min(CHUNK_SIZE, remaining)
       IN  \E bytes_read \in 1..current_chunk_size :
              LET chunk == SubSeq(content, position + 1, position + bytes_read)
                  buffer == overlap_buffer \o chunk
                  found == search_patterns(from_utf8_lossy(buffer), patterns, 1, found_patterns)
              IN  /\ search_buffer' = buffer
                  /\ found_patterns' = found
                  /\ overlap_buffer' =
                         next_overlap(chunk, bytes_read, current_chunk_size, position, file_size)
                  /\ position' = position + current_chunk_size
                  /\ spc' = IF Len(found) = Len(patterns) THEN "exit" ELSE "loop"
    /\ UNCHANGED <<content, patterns, dispatchVars, protocolVars, peVars, detectVars, msiVars, restVars>>

\* The loop is over, by `break` or by its condition: Ok(found_patterns).
search_return ==
    /\ \/ spc = "exit"
       \/ spc = "loop" /\ position >= Len(content)
    /\ spc' = "done"
    /\ UNCHANGED <<content, patterns, position, overlap_buffer, search_buffer, found_patterns,
                   dispatchVars, protocolVars, peVars, detectVars, msiVars, restVars>>

NextScan == search_iteration \/ search_return

SpecScan == InitScan /\ [][NextScan]_vars

Range(seq) == {seq[i] : i \in 1..Len(seq)}

\* The pattern's bytes occur in the file (the patterns are ASCII, so a
\* pattern's bytes are its characters).
Occurs(pat, bytes) == contains(bytes, pat)

\* C9: the result of search_file_content is exactly the set of requested
\* patterns that occur in the file's bytes, wherever the occurrences lie.
C9_ExactlyThePatternsPresent ==
    spc = "done" =>
        Range(found_patterns) = {p \in Range(patterns) : Occurs(p, content)}

IsPrefix(a, b) == Len(a) <= Len(b) /\ SubSeq(b, 1, Len(a)) = a

NoRepeat(seq) == \A i, j \in 1..Len(seq) : i # j => seq[i] # seq[j]

\* C22: the list of found patterns only grows at its end, holds requested
\* patterns only and none of them twice, and a pattern is added in the
\* iteration whose buffer contains it; so the patterns are listed once, in
\* the order of the chunks in which they were first found.
C22_FoundOnceInDiscoveryOrder ==
    [][/\ IsPrefix(found_patterns, found_patterns')
       /\ NoRepeat(found_patterns')
       /\ Range(found_patterns') \subseteq Range(patterns)
       /\ \A k \in (Len(found_patterns) + 1)..Len(found_patterns') :
              contains(from_utf8_lossy(search_buffer'), found_patterns'[k])
      ]_vars

\* "bb" is requested first and found in the second chunk, "a" is found in
\* the first chunk and again in the second.
C22_Witness ==
    /\ spc = "done"
    /\ content = <<97, 97, 97, 97, 97, 98, 98>>
    /\ patterns = <<<<98, 98>>, <<97>>>>
    /\ found_patterns = <<<<97>>, <<98, 98>>>>

\* C23: once an iteration has left every requested pattern in the list of
\* found patterns, search_file_content reads no further chunk.
C23_StopsWhenAllFound ==
    [][(position > 0 /\ Range(patterns) \subseteq Range(found_patterns)) =>
          position' = position]_vars

\* C27: an iteration moves the read position by the number of bytes it has
\* read, so that no byte is passed over without being searched.
C27_PositionFollowsBytesRead ==
    [][position' # position =>
          position' - position = Len(search_buffer') - Len(overlap_buffer)]_vars

----------------------------------------------------------------------------
(* common::detect_installer_format *)

\* The pattern lists of detect_pe_installer_format.
detect_nsis_patterns == {"Nullsoft.NSIS.exehead", "NullsoftInst", "NSIS Error"}
detect_inno_patterns == {"Inno Setup Setup Data", "JR.Inno.Setup", "InnoSetupVersion"}
detect_installshield_patterns == {"InstallShield", "InstallScript"}
detect_wix_patterns == {"Windows Installer XML", "WiX Toolset"}

FmtOk(fmt) == [tag |-> "Ok", format |-> fmt]
FmtErr(kind) == [tag |-> "Err", kind |-> kind]

\* detect_format_by_extension: "msi" and "whl" decide, anything else is None.
detect_format_by_extension(p) ==
    CASE extension(p) = "msi" -> "MSI"
      [] extension(p) = "whl" -> "PythonWheel"
      [] OTHER                -> "None"

\* detect_pe_installer_format: four searches, then the first list with a
\* match decides, in the order NSIS, InnoSetup, InstallShield, WiX.
detect_pe_installer_format(f) ==
    { IF "Io" \in {n, i, s, w} THEN FmtErr("Io")
      ELSE IF n = "true" THEN FmtOk("NSIS")
      ELSE IF i = "true" THEN FmtOk("InnoSetup")
      ELSE IF s = "true" THEN FmtOk("InstallShield")
      ELSE IF w = "true" THEN FmtOk("WiX")
      ELSE FmtOk("Unknown")
      : n \in has_match(f, detect_nsis_patterns),
        i \in has_match(f, detect_inno_patterns),
        s \in has_match(f, detect_installshield_patterns),
        w \in has_match(f, detect_wix_patterns) }

\* detect_installer_format: the extension first, then the PE test and the
\* content, otherwise Err(UnsupportedFormat).
detect_installer_format(f) ==
    IF detect_format_by_extension(f.path) # "None"
    THEN {FmtOk(detect_format_by_extension(f.path))}
    ELSE IF is_pe_file_of(f) = "Io" THEN {FmtErr("Io")}
    ELSE IF is_pe_file_of(f) = "true" THEN detect_pe_installer_format(f)
    ELSE {FmtErr("UnsupportedFormat")}

DetectPaths == {"a.msi", "a.whl", "a.exe", "a.txt"}

InitDetect ==
    /\ IdleMsi /\ IdleRest
    /\ \E f \in Files : \E p \in DetectPaths :
          /\ f.path \in DetectPaths
          /\ dfiles = <<f, [f EXCEPT !.path = p]>>
    /\ dres = <<NoResult, NoResult>>
    /\ file = [path |-> "a.exe", kind |-> "file", header |-> "mz", content |-> {}]
    /\ pc = "done" /\ idx = 1 /\ probed = <<>> /\ result = NoResult
    /\ who = "none" /\ canRes = "none" /\ metaRes = NoResult
    /\ peFile = <<>> /\ commonPe = "none" /\ extractorPe = "none"
    /\ content = <<>> /\ patterns = <<>> /\ position = 0 /\ overlap_buffer = <<>>
    /\ search_buffer = <<>> /\ found_patterns = <<>> /\ spc = "done"

call_detect_installer_format ==
    /\ \E k \in 1..2 :
          /\ dres[k] = NoResult
          /\ \E r \in detect_installer_format(dfiles[k]) : dres' = [dres EXCEPT ![k] = r]
    /\ UNCHANGED <<dfiles, dispatchVars, protocolVars, peVars, scanVars, msiVars, restVars>>

NextDetect == call_detect_installer_format

SpecDetect == InitDetect /\ [][NextDetect]_vars

\* C6: detect_installer_format gives every readable file a format tag and no
\* error, and gives two readable files with the same bytes the same tag.
C6_DeterministicTotal ==
    /\ \A k \in 1..2 :
          (dfiles[k].kind = "file" /\ dres[k] # NoResult) => dres[k].tag = "Ok"
    /\ (dfiles[1].kind = "file" /\ dres[1] # NoResult /\ dres[2] # NoResult) =>
          dres[1] = dres[2]

\* The two classifications of one file: create_analyzer and
\* detect_installer_format are both run on the path, the file staying as it
\* is.
InitClassify ==
    /\ IdleMsi /\ IdleRest
    /\ file \in Files
    /\ pc = "probing" /\ idx = 1 /\ probed = <<>> /\ result = NoResult
    /\ dfiles = <<file, file>>
    /\ dres = <<NoResult, NoResult>>
    /\ who = "none" /\ canRes = "none" /\ metaRes = NoResult
    /\ peFile = <<>> /\ commonPe = "none" /\ extractorPe = "none"
    /\ content = <<>> /\ patterns = <<>> /\ position = 0 /\ overlap_buffer = <<>>
    /\ search_buffer = <<>> /\ found_patterns = <<>> /\ spc = "done"

SpecClassify ==
    InitClassify /\ [][create_analyzer \/ call_detect_installer_format]_vars

\* C29: when detect_installer_format and create_analyzer both succeed on a
\* file, the format tag of the one is format() of the analyzer of the other.
C29_ClassificationsAgree ==
    (pc = "done" /\ result.tag = "Ok" /\ dres[1].tag = "Ok") =>
        dres[1].format = format(result.analyzer)

----------------------------------------------------------------------------
(* The MSI table conversions (src/src/analyzers/msi/tables.rs).             *)
(* Strings are sequences of one-character strings, so that split, join and *)
(* ends_with are computed character by character.                          *)

\* The rest of the program at rest while the MSI engine is under study.
IdleCore ==
    /\ file = [path |-> "a.msi", kind |-> "file", header |-> "ole", content |-> {}]
    /\ pc = "done" /\ idx = 1 /\ probed = <<>> /\ result = NoResult
    /\ who = "none" /\ canRes = "none" /\ metaRes = NoResult
    /\ peFile = <<>> /\ commonPe = "none" /\ extractorPe = "none"
    /\ content = <<>> /\ patterns = <<>> /\ position = 0 /\ overlap_buffer = <<>>
    /\ search_buffer = <<>> /\ found_patterns = <<>> /\ spc = "done"
    /\ dfiles = <<>> /\ dres = <<>>

coreVars == <<dispatchVars, protocolVars, peVars, scanVars, detectVars>>

\* Option<T>
None == <<>>
Some(v) == <<v>>

\* Bounds of the table inputs.
MaxDirs == 3
MaxFiles == 2

\* Index of the first occurrence of c in s, Len(s) + 1 when there is none.
find_char(s, c) ==
    IF \E i \in 1..Len(s) : s[i] = c
    THEN CHOOSE i \in 1..Len(s) : s[i] = c /\ \A j \in 1..(i - 1) : s[j] # c
    ELSE Len(s) + 1

\* The short|long decoding as it would read were the first field taken.
decode_name_short(s) == SubSeq(s, 1, find_char(s, "|") - 1)

\* tables.rs:197-205 and 242-250: the name shown for a FileName or
\* DefaultDir value.  With a '|' in s it is s.split('|').nth(1), the text
\* between the first '|' and the second one or the end; without, s itself.
decode_name(s) ==
    IF find_char(s, "|") <= Len(s)
    THEN LET rest == SubSeq(s, find_char(s, "|") + 1, Len(s))
         IN  SubSeq(rest, 1, find_char(rest, "|") - 1)
    ELSE s

\* str::ends_with
ends_with(s, suffix) ==
    /\ Len(suffix) <= Len(s)
    /\ SubSeq(s, Len(s) - Len(suffix) + 1, Len(s)) = suffix

\* [String]::join
RECURSIVE join(_, _)
join(parts, sep) ==
    IF parts = <<>> THEN <<>>
    ELSE IF Len(parts) = 1 THEN parts[1]
    ELSE parts[1] \o <<sep>> \o join(Tail(parts), sep)

\* path.matches('\\').count()
matches_count(s, c) == Cardinality({i \in 1..Len(s) : s[i] = c})

\* HashMap::insert
insert(m, k, v) == [x \in (DOMAIN m) \cup {k} |-> IF x = k THEN v ELSE m[x]]

TARGETDIR == <<"T", "A", "R", "G", "E", "T", "D", "I", "R">>

\* The Directory rows under study, with ids R, A and B; the id X names no
\* row.

DirRows ==
    {[directory |-> "R", directory_parent |-> None, default_dir |-> n] :
        n \in {<<"S", "r", "c">>, TARGETDIR, <<".">>}}
    \cup
    {[directory |-> "A", directory_parent |-> Some(p), default_dir |-> n] :
        p \in {"R", "A", "B"}, n \in {<<"P", "F">>, <<"p", "|", "P", "F">>}}
    \cup
    {[directory |-> "B", directory_parent |-> Some(p), default_dir |-> n] :
        p \in {"A", "R", "X"}, n \in {<<"A", "p", "p">>, <<"a", "|">>}}

RECURSIVE SeqsOfRows(_, _)
SeqsOfRows(rows, n) ==
    IF n = 0 THEN {<<>>}
    ELSE LET shorter == SeqsOfRows(rows, n - 1)
         IN  shorter \cup {Append(s, r) : s \in {t \in shorter : Len(t) = n - 1}, r \in rows}

DirTables == SeqsOfRows(DirRows, MaxDirs)

\* First pass of build_directory_hierarchy over rows i..Len(rows).
RECURSIVE first_pass(_, _, _)
first_pass(rows, i, maps) ==
    IF i > Len(rows) THEN maps
    ELSE LET dir == rows[i]
             dm  == insert(maps.dir_map, dir.directory, decode_name(dir.default_dir))
             pm  == IF dir.directory_parent # None
                    THEN insert(maps.parent_map, dir.directory, dir.directory_parent[1])
                    ELSE maps.parent_map
         IN  first_pass(rows, i + 1, [dir_map |-> dm, parent_map |-> pm])

\* tables.rs:281: the names the walk keeps.
keeps_name(dir_name) ==
    dir_name # <<>> /\ dir_name # TARGETDIR /\ dir_name # <<".">>

\* The collected names joined leaf to root.
finish_path_unreversed(parts) == join(parts, "\\")

\* tables.rs:293-295: path_parts.reverse(), then join("\\").
finish_path(parts) == join([i \in 1..Len(parts) |-> parts[Len(parts) + 1 - i]], "\\")

\* All orders in which a HashMap may hand out the keys S.
Orders(S) ==
    {s \in [1..Cardinality(S) -> S] : \A i, j \in 1..Cardinality(S) : s[i] = s[j] => i = j}

\* build_directory_hierarchy, first pass (tables.rs:236-256).
build_first_pass ==
    /\ tpc = "first_pass"
    /\ LET maps == first_pass(directories, 1, [dir_map |-> <<>>, parent_map |-> <<>>])
       IN  /\ dir_map' = maps.dir_map
           /\ parent_map' = maps.parent_map
           /\ pending' = DOMAIN maps.dir_map
    /\ tpc' = "second_pass"
    /\ UNCHANGED <<directories, files, dir_id, current_id, path_parts, turn, resolved_paths,
                   values_order, file_entries, registryVars, valueVars, extractVars, coreVars, restVars>>

\* Second pass: the next key of dir_map.keys(), or the map is complete
\* (tables.rs:259-265).
build_second_pass ==
    /\ tpc = "second_pass"
    /\ IF pending = {}
       THEN /\ tpc' = "built"
            /\ values_order' \in Orders(DOMAIN resolved_paths)
            /\ UNCHANGED <<dir_id, current_id, path_parts, turn, pending>>
       ELSE /\ \E d \in pending :
                  /\ dir_id' = d
                  /\ current_id' = d
                  /\ pending' = pending \ {d}
            /\ path_parts' = <<>>
            /\ turn' = 0
            /\ tpc' = "walk"
            /\ UNCHANGED values_order
    /\ UNCHANGED <<directories, files, dir_map, parent_map, resolved_paths, file_entries,
                   registryVars, valueVars, extractVars, coreVars, restVars>>

\* One iteration of the loop of resolve_directory_path (tables.rs:278-291),
\* and on its break the insert of the resolved path (tables.rs:262,293-295).
\* A walk that holds more names than a chain without a repeated id can
\* give is in a cycle; the names it goes on collecting are not recorded,
\* only the parity of the iterations it makes.
resolve_directory_path ==
    /\ tpc = "walk"
    /\ LET parts == IF /\ current_id \in DOMAIN dir_map
                       /\ keeps_name(dir_map[current_id])
                       /\ Len(path_parts) <= MaxDirs
                    THEN Append(path_parts, dir_map[current_id])
                    ELSE path_parts
       IN  IF current_id \in DOMAIN parent_map
           THEN /\ current_id' = parent_map[current_id]
                /\ path_parts' = parts
                /\ turn' = 1 - turn
                /\ UNCHANGED <<tpc, resolved_paths>>
           ELSE /\ resolved_paths' = insert(resolved_paths, dir_id, finish_path(parts))
                /\ path_parts' = parts
                /\ turn' = 0
                /\ tpc' = "second_pass"
                /\ UNCHANGED current_id
    /\ UNCHANGED <<directories, files, dir_map, parent_map, pending, dir_id, values_order,
                   file_entries, registryVars, valueVars, extractVars, coreVars, restVars>>

InitHierarchy ==
    /\ directories \in DirTables
    /\ files = <<>>
    /\ tpc = "first_pass"
    /\ dir_map = <<>> /\ parent_map = <<>> /\ pending = {}
    /\ dir_id = "" /\ current_id = "" /\ path_parts = <<>> /\ turn = 0
    /\ resolved_paths = <<>> /\ values_order = <<>> /\ file_entries = <<>>
    /\ IdleRegistry /\ IdleValue /\ IdleExtract /\ IdleCore /\ IdleRest

\* build_directory_hierarchy run on its own.
SpecHierarchy ==
    InitHierarchy /\ [][build_first_pass \/ build_second_pass \/ resolve_directory_path]_vars

\* build_directory_hierarchy is one synchronous call: it keeps running
\* while it has a step to take.
SpecHierarchyFair ==
    SpecHierarchy /\ WF_vars(build_first_pass \/ build_second_pass \/ resolve_directory_path)

\* C26: build_directory_hierarchy terminates for every list of Directory
\* rows, also with a row that is its own parent, a cycle of parents, or a
\* parent id that names no row.
C26_HierarchyTerminates == <>(tpc = "built")

\* File rows under study: FileName and Attributes are the fields
\* convert_to_file_entries reads for the path and the attribute set.
FileRows ==
    {[filename |-> n, attributes |-> a] :
        n \in {<<"a", ".", "e", "x", "e">>, <<"s", "|", "l", ".", "d", "l", "l">>,
               <<"n", ".", "t", "x", "t">>},
        a \in {None, Some(5)}}
    \cup
    {[filename |-> <<"a", ".", "e", "x", "e">>, attributes |-> Some(a)] :
        a \in {0, 1, 2, 4, -2}}

\* Directory tables convert_to_file_entries is run against: none, every
\* single row, and tables of several rows (a chain, two equally deep
\* branches, a chain with a short|long name).
ConvertDirTables ==
    {t \in DirTables : Len(t) <= 1}
    \cup
    {<<[directory |-> "R", directory_parent |-> None, default_dir |-> <<"S", "r", "c">>],
       [directory |-> "A", directory_parent |-> Some("R"), default_dir |-> n],
       [directory |-> "B", directory_parent |-> Some(p), default_dir |-> <<"A", "p", "p">>]>> :
        n \in {<<"P", "F">>, <<"p", "|", "P", "F">>}, p \in {"A", "R"}}

\* Option::is_some_and(|a| a & 2^k != 0), on an i32 in two's complement.
is_some_and_bit(attributes, k) ==
    attributes # None /\ (attributes[1] \div (2 ^ k)) % 2 = 1

\* The attribute set with the hidden and readonly bits exchanged.
file_attributes_swapped(attributes, display_name) ==
    [readonly   |-> is_some_and_bit(attributes, 1),
     hidden     |-> is_some_and_bit(attributes, 0),
     system     |-> is_some_and_bit(attributes, 2),
     executable |-> ends_with(display_name, <<".", "e", "x", "e">>)
                    \/ ends_with(display_name, <<".", "d", "l", "l">>)]

\* tables.rs:214-219
file_attributes(attributes, display_name) ==
    [readonly   |-> is_some_and_bit(attributes, 0),
     hidden     |-> is_some_and_bit(attributes, 1),
     system     |-> is_some_and_bit(attributes, 2),
     executable |-> ends_with(display_name, <<".", "e", "x", "e">>)
                    \/ ends_with(display_name, <<".", "d", "l", "l">>)]

\* Iterator::max_by_key over the non-empty values of the hierarchy map taken
\* in iteration order: of several equally deep paths the last one wins.
RECURSIVE max_by_key(_, _, _, _)
max_by_key(dir_hierarchy, order, i, best) ==
    IF i > Len(order) THEN best
    ELSE LET path == dir_hierarchy[order[i]]
         IN  IF path = <<>> THEN max_by_key(dir_hierarchy, order, i + 1, best)
             ELSE IF best = None \/ matches_count(path, "\\") >= matches_count(best[1], "\\")
             THEN max_by_key(dir_hierarchy, order, i + 1, Some(path))
             ELSE max_by_key(dir_hierarchy, order, i + 1, best)

\* tables.rs:299-319
resolve_file_path(filename, dir_hierarchy, order) ==
    LET deepest_path == max_by_key(dir_hierarchy, order, 1, None)
    IN  IF deepest_path # None
        THEN deepest_path[1] \o <<"\\">> \o filename
        ELSE filename

\* One iteration of the loop of convert_to_file_entries (tables.rs:195-229).
convert_file ==
    /\ tpc = "built"
    /\ Len(file_entries) < Len(files)
    /\ LET frow         == files[Len(file_entries) + 1]
           display_name == decode_name(frow.filename)
           full_path    == resolve_file_path(display_name, resolved_paths, values_order)
       IN  file_entries' = Append(file_entries,
               [path        |-> full_path,
                target_path |-> Some(TARGETDIR \o <<"\\">> \o full_path),
                attributes  |-> file_attributes(frow.attributes, display_name)])
    /\ UNCHANGED <<directories, files, tpc, dir_map, parent_map, pending, dir_id, current_id,
                   path_parts, turn, resolved_paths, values_order,
                   registryVars, valueVars, extractVars, coreVars, restVars>>

\* convert_to_file_entries returns file_entries (tables.rs:231).
convert_return ==
    /\ tpc = "built"
    /\ Len(file_entries) = Len(files)
    /\ tpc' = "done"
    /\ UNCHANGED <<directories, files, dir_map, parent_map, pending, dir_id, current_id,
                   path_parts, turn, resolved_paths, values_order, file_entries,
                   registryVars, valueVars, extractVars, coreVars, restVars>>

InitConvert ==
    /\ directories \in ConvertDirTables
    /\ files \in SeqsOfRows(FileRows, MaxFiles)
    /\ tpc = "first_pass"
    /\ dir_map = <<>> /\ parent_map = <<>> /\ pending = {}
    /\ dir_id = "" /\ current_id = "" /\ path_parts = <<>> /\ turn = 0
    /\ resolved_paths = <<>> /\ values_order = <<>> /\ file_entries = <<>>
    /\ IdleRegistry /\ IdleValue /\ IdleExtract /\ IdleCore /\ IdleRest

NextConvert ==
    \/ build_first_pass
    \/ build_second_pass
    \/ resolve_directory_path
    \/ convert_file
    \/ convert_return

SpecConvert == InitConvert /\ [][NextConvert]_vars

\* convert_to_file_entries is one synchronous call: it keeps running while
\* it has a step to take.
SpecConvertFair == SpecConvert /\ WF_vars(NextConvert)

----------------------------------------------------------------------------
(* Properties of the MSI table conversions *)


\* The Directory column is the table's primary key.
UniqueIds(rows) == \A i, j \in 1..Len(rows) : rows[i].directory = rows[j].directory => i = j

HasRow(rows, d) == \E r \in Range(rows) : r.directory = d
RowOf(rows, d) == CHOOSE r \in Range(rows) : r.directory = d

\* The parent chain of d ends within fuel steps.
RECURSIVE ChainEnds(_, _, _)
ChainEnds(rows, d, fuel) ==
    IF ~HasRow(rows, d) \/ RowOf(rows, d).directory_parent = None THEN TRUE
    ELSE IF fuel = 0 THEN FALSE
    ELSE ChainEnds(rows, RowOf(rows, d).directory_parent[1], fuel - 1)

Acyclic(rows) == \A r \in Range(rows) : ChainEnds(rows, r.directory, Len(rows))

\* The ids from the root of d's chain down to d; an id that names no row
\* contributes nothing.
RECURSIVE ChainOf(_, _)
ChainOf(rows, d) ==
    IF ~HasRow(rows, d) THEN <<>>
    ELSE IF RowOf(rows, d).directory_parent = None THEN <<d>>
    ELSE Append(ChainOf(rows, RowOf(rows, d).directory_parent[1]), d)

\* The long name of a short|long value, the value itself without a '|'.
LongName(s) ==
    IF \E i \in 1..Len(s) : s[i] = "|"
    THEN LET i == CHOOSE k \in 1..Len(s) : s[k] = "|"
         IN  SubSeq(s, i + 1, Len(s))
    ELSE s

OneBarAtMost(s) == Cardinality({i \in 1..Len(s) : s[i] = "|"}) <= 1

IsLeftOut(n) == n = <<>> \/ n = TARGETDIR \/ n = <<".">>

NotLeftOut(n) == ~IsLeftOut(n)

ExpectedPath(rows, d) ==
    LET chain == ChainOf(rows, d)
        names == [i \in 1..Len(chain) |-> LongName(RowOf(rows, chain[i]).default_dir)]
    IN  join(SelectSeq(names, NotLeftOut), "\\")

ExampleTable ==
    <<[directory |-> "R", directory_parent |-> None, default_dir |-> <<"S", "r", "c">>],
      [directory |-> "A", directory_parent |-> Some("R"), default_dir |-> <<"P", "F">>],
      [directory |-> "B", directory_parent |-> Some("A"), default_dir |-> <<"A", "p", "p">>]>>

ExamplePath == <<"S", "r", "c", "\\", "P", "F", "\\", "A", "p", "p">>

\* C11: for an acyclic Directory table, the finished hierarchy map has every
\* directory id as a key and maps it to the decoded names of its ancestors
\* and itself, root first, joined by '\', without the names that are empty,
\* 'TARGETDIR' or '.'; for the rows (R, -, Src), (A, R, PF), (B, A, App) the
\* path of B is Src\PF\App.
C11_HierarchyPaths ==
    (tpc = "built" /\ UniqueIds(directories) /\ Acyclic(directories)) =>
        /\ DOMAIN resolved_paths = {r.directory : r \in Range(directories)}
        /\ \A d \in DOMAIN resolved_paths :
              resolved_paths[d] = ExpectedPath(directories, d)
        /\ directories = ExampleTable => resolved_paths["B"] = ExamplePath

C11_Witness ==
    /\ tpc = "built"
    /\ directories = ExampleTable
    /\ resolved_paths["B"] = ExamplePath
    /\ resolved_paths["A"] = <<"S", "r", "c", "\\", "P", "F">>

\* The last component of a displayed path is name.
LastComponentIs(path, name) ==
    /\ ends_with(path, name)
    /\ Len(path) > Len(name) => path[Len(path) - Len(name)] = "\\"

\* C14: convert_to_file_entries returns, whatever the Directory rows are,
\* exactly one FileEntry per File row, in row order, and the path of each
\* entry ends with the display name of its row.
C14_OneEntryPerFileRow ==
    <>(/\ tpc = "done"
       /\ Len(file_entries) = Len(files)
       /\ \A i \in 1..Len(files) :
             ends_with(file_entries[i].path, LongName(files[i].filename)))

AttrBit(a, k) == (a \div (2 ^ k)) % 2 = 1

IsExecutableName(n) ==
    \/ ends_with(n, <<".", "e", "x", "e">>)
    \/ ends_with(n, <<".", "d", "l", "l">>)

\* C17: the FileEntry of every File row has readonly = bit 0 of Attributes,
\* hidden = bit 1, system = bit 2, all three false without Attributes, and
\* executable true exactly when the display name ends in .exe or .dll,
\* whatever the bits are.
C17_AttributeBits ==
    \A i \in 1..Len(file_entries) :
        LET a == files[i].attributes
            e == file_entries[i].attributes
        IN  /\ a = None => (~e.readonly /\ ~e.hidden /\ ~e.system)
            /\ a # None => /\ e.readonly = AttrBit(a[1], 0)
                           /\ e.hidden   = AttrBit(a[1], 1)
                           /\ e.system   = AttrBit(a[1], 2)
            /\ a = Some(5)  => (e.readonly /\ ~e.hidden /\ e.system)
            /\ a = Some(-2) => (~e.readonly /\ e.hidden /\ e.system)
            /\ e.executable = IsExecutableName(LongName(files[i].filename))

C17_Witness ==
    /\ tpc = "done"
    /\ Len(file_entries) = 2
    /\ files[1].attributes = Some(2) /\ file_entries[1].attributes.hidden
    /\ ~file_entries[1].attributes.readonly /\ file_entries[1].attributes.executable
    /\ files[2] = [filename |-> <<"n", ".", "t", "x", "t">>, attributes |-> Some(5)]
    /\ file_entries[2].attributes.system /\ ~file_entries[2].attributes.executable

\* C18: a FileName or DefaultDir value written shortname|longname appears in
\* the displayed path under its long name, and a value without '|' appears
\* unchanged.
C18_LongNamePreferred ==
    /\ \A i \in 1..Len(file_entries) :
          OneBarAtMost(files[i].filename) =>
              LastComponentIs(file_entries[i].path, LongName(files[i].filename))
    /\ (tpc \in {"built", "done"} /\ UniqueIds(directories)) =>
          \A r \in Range(directories) :
              (OneBarAtMost(r.default_dir) /\ NotLeftOut(LongName(r.default_dir))) =>
                  LastComponentIs(resolved_paths[r.directory], LongName(r.default_dir))

C18_Witness ==
    /\ tpc = "done"
    /\ Len(directories) = 3
    /\ directories[2].default_dir = <<"p", "|", "P", "F">>
    /\ Len(files) = 2
    /\ files[1].filename = <<"s", "|", "l", ".", "d", "l", "l">>
    /\ file_entries[1].path =
          <<"S", "r", "c", "\\", "P", "F", "\\", "A", "p", "p", "\\", "l", ".", "d", "l", "l">>
    /\ files[2].filename = <<"n", ".", "t", "x", "t">>
    /\ LastComponentIs(file_entries[2].path, <<"n", ".", "t", "x", "t">>)

\* C28: convert_to_file_entries is deterministic: the paths it has returned
\* are the paths it gives under every iteration order of the directory
\* map, also when several resolved paths tie for the most separators.
C28_PathsIndependentOfOrder ==
    tpc = "done" =>
        \A o \in Orders(DOMAIN resolved_paths) : \A i \in 1..Len(files) :
            file_entries[i].path =
                resolve_file_path(decode_name(files[i].filename), resolved_paths, o)

----------------------------------------------------------------------------
(* The Registry table conversion (tables.rs:322-389).  Key paths and value  *)
(* names are strings; value strings are sequences of characters, since      *)
(* parse_registry_value reads them character by character.                  *)

MaxRegRows == 2

\* i32::MIN, the first of the root codes of format_registry_key.
MinI32 == -2147483647 - 1

\* The root codes under study: the codes of the match and their
\* neighbours, the codes -1..3, and two more.
RootCodes == {MinI32 + k : k \in 0..7} \cup {-1, 0, 1, 2, 3, 999, 2147483647}

\* The match without the arm of -2147483642.
root_name_six(code) ==
    CASE code = MinI32     -> "HKEY_CLASSES_ROOT"
      [] code = MinI32 + 1 -> "HKEY_CURRENT_USER"
      [] code = MinI32 + 2 -> "HKEY_LOCAL_MACHINE"
      [] code = MinI32 + 3 -> "HKEY_USERS"
      [] code = MinI32 + 4 -> "HKEY_PERFORMANCE_DATA"
      [] code = MinI32 + 5 -> "HKEY_CURRENT_CONFIG"
      [] OTHER             -> "UNKNOWN_ROOT"

\* tables.rs:355-364
root_name(code) ==
    CASE code = MinI32     -> "HKEY_CLASSES_ROOT"
      [] code = MinI32 + 1 -> "HKEY_CURRENT_USER"
      [] code = MinI32 + 2 -> "HKEY_LOCAL_MACHINE"
      [] code = MinI32 + 3 -> "HKEY_USERS"
      [] code = MinI32 + 4 -> "HKEY_PERFORMANCE_DATA"
      [] code = MinI32 + 5 -> "HKEY_CURRENT_CONFIG"
      [] code = MinI32 + 6 -> "HKEY_DYN_DATA"
      [] OTHER             -> "UNKNOWN_ROOT"

\* tables.rs:354-367
format_registry_key(code, key) == root_name(code) \o "\\" \o key

\* str::strip_prefix
strip_prefix(s, prefix) ==
    IF Len(prefix) <= Len(s) /\ SubSeq(s, 1, Len(prefix)) = prefix
    THEN Some(SubSeq(s, Len(prefix) + 1, Len(s)))
    ELSE None

\* Value of a hex digit, -1 for any other character.
hex_val(c) ==
    LET chars == <<"0", "1", "2", "3", "4", "5", "6", "7", "8", "9",
                   "a", "b", "c", "d", "e", "f", "A", "B", "C", "D", "E", "F">>
    IN  IF \E i \in 1..Len(chars) : chars[i] = c
        THEN LET i == CHOOSE k \in 1..Len(chars) : chars[k] = c
             IN  IF i <= 16 THEN i - 1 ELSE i - 7
        ELSE -1

\* hex::decode(..).ok(): an odd length or a character that is no hex digit
\* is an error; otherwise each pair of digits is one byte.
hex_decode(s) ==
    IF Len(s) % 2 # 0 \/ \E i \in 1..Len(s) : hex_val(s[i]) < 0
    THEN None
    ELSE Some([i \in 1..(Len(s) \div 2) |-> 16 * hex_val(s[2 * i - 1]) + hex_val(s[2 * i])])

\* The checked multiply-and-add of the digit loop of u32::from_str; the u32
\* is held as its two 16-bit halves.
RECURSIVE parse_digits(_, _, _)
parse_digits(s, i, acc) ==
    IF i > Len(s) THEN Some(acc)
    ELSE IF hex_val(s[i]) \notin 0..9 THEN None
    ELSE LET lo2 == acc.lo * 10 + hex_val(s[i])
             hi2 == acc.hi * 10 + (lo2 \div 65536)
         IN  IF hi2 > 65535 THEN None
             ELSE parse_digits(s, i + 1, [hi |-> hi2, lo |-> lo2 % 65536])

\* str::parse::<u32>().ok(): an optional '+', then at least one decimal
\* digit, and no overflow.
parse_u32(s) ==
    LET digits == IF s # <<>> /\ s[1] = "+" THEN Tail(s) ELSE s
    IN  IF digits = <<>> THEN None ELSE parse_digits(digits, 1, [hi |-> 0, lo |-> 0])

\* The value strings under study.
ValueStrings ==
    { <<"#", "x", "4", "8", "6", "5", "6", "c", "6", "c", "6", "f">>,
      <<"#", "1", "2", "3">>,
      <<"p", "l", "a", "i", "n">>,
      <<"#", "x">>,
      <<"#", "x", "4", "g">>,
      <<"#", "x", "1", "2", "3">>,
      <<"#", "x", "A", "b">>,
      <<"#", "X", "4", "1">>,
      <<"#">>,
      <<"#", "-", "1">>,
      <<"#", "+", "5">>,
      <<"#", "0", "0", "7">>,
      <<"#", "1", "2", "a">>,
      <<"#", "#", "1">>,
      <<"#", "4", "2", "9", "4", "9", "6", "7", "2", "9", "5">>,
      <<"#", "4", "2", "9", "4", "9", "6", "7", "2", "9", "6">>,
      <<>> }

\* parse_registry_value that takes every '#x' value for Binary, decoding
\* what it can, and every other '#' value for a DWord.
parse_registry_value_no_fallback(s) ==
    IF strip_prefix(s, <<"#", "x">>) # None
    THEN [type |-> "Binary",
          data |-> IF hex_decode(strip_prefix(s, <<"#", "x">>)[1]) # None
                   THEN hex_decode(strip_prefix(s, <<"#", "x">>)[1])[1]
                   ELSE <<>>]
    ELSE IF strip_prefix(s, <<"#">>) # None
    THEN [type |-> "DWord",
          data |-> IF parse_u32(strip_prefix(s, <<"#">>)[1]) # None
                   THEN parse_u32(strip_prefix(s, <<"#">>)[1])[1]
                   ELSE [hi |-> 0, lo |-> 0]]
    ELSE [type |-> "String", data |-> s]

\* tables.rs:370-389
parse_registry_value(s) ==
    LET hex_str  == strip_prefix(s, <<"#", "x">>)
        stripped == strip_prefix(s, <<"#">>)
    IN  IF hex_str # None /\ hex_decode(hex_str[1]) # None
        THEN [type |-> "Binary", data |-> hex_decode(hex_str[1])[1]]
        ELSE IF hex_str = None /\ stripped # None /\ parse_u32(stripped[1]) # None
        THEN [type |-> "DWord", data |-> parse_u32(stripped[1])[1]]
        ELSE [type |-> "String", data |-> s]

InitValue ==
    /\ value_str \in ValueStrings
    /\ root \in RootCodes
    /\ parsed = [type |-> "None"]
    /\ key_path = ""
    /\ IdleTables /\ IdleRegistry /\ IdleExtract /\ IdleCore /\ IdleRest

call_parse_registry_value ==
    /\ parsed = [type |-> "None"]
    /\ parsed' = parse_registry_value(value_str)
    /\ UNCHANGED <<value_str, root, key_path, tableVars, registryVars, extractVars, coreVars, restVars>>

call_format_registry_key ==
    /\ key_path = ""
    /\ \E key \in {"Software\\App", ""} : key_path' = format_registry_key(root, key)
    /\ UNCHANGED <<value_str, root, parsed, tableVars, registryVars, extractVars, coreVars, restVars>>

SpecValue == InitValue /\ [][call_parse_registry_value \/ call_format_registry_key]_vars

\* Registry rows under study.
RegistryRows ==
    {[root |-> r, key |-> "Software\\App", name |-> n, value |-> v] :
        r \in {MinI32 + 2, 999},
        n \in {None, Some("N")},
        v \in {None, Some(<<"#", "1", "2", "3">>), Some(<<"p", "l", "a", "i", "n">>)}}

\* What one iteration of the loop of convert_to_registry_operations pushes
\* for a row (tables.rs:326-347).
operations_of(entry) ==
    LET kp == format_registry_key(entry.root, entry.key)
    IN  IF entry.name # None
        THEN IF entry.value # None
             THEN <<[op         |-> "SetValue",
                     key_path   |-> kp,
                     value_name |-> entry.name[1],
                     value_type |-> parse_registry_value(entry.value[1]).type,
                     value_data |-> parse_registry_value(entry.value[1]).data]>>
             ELSE <<>>
        ELSE <<[op |-> "CreateKey", key_path |-> kp]>>

InitRegistry ==
    /\ entries \in SeqsOfRows(RegistryRows, MaxRegRows)
    /\ operations = <<>>
    /\ ridx = 0
    /\ rpc = "loop"
    /\ IdleTables /\ IdleValue /\ IdleExtract /\ IdleCore /\ IdleRest

\* One iteration of the loop of convert_to_registry_operations.
convert_registry_entry ==
    /\ rpc = "loop"
    /\ ridx < Len(entries)
    /\ operations' = operations \o operations_of(entries[ridx + 1])
    /\ ridx' = ridx + 1
    /\ UNCHANGED <<entries, rpc, tableVars, valueVars, extractVars, coreVars, restVars>>

\* convert_to_registry_operations returns operations (tables.rs:350).
convert_registry_return ==
    /\ rpc = "loop"
    /\ ridx = Len(entries)
    /\ rpc' = "done"
    /\ UNCHANGED <<entries, operations, ridx, tableVars, valueVars, extractVars, coreVars, restVars>>

SpecRegistry == InitRegistry /\ [][convert_registry_entry \/ convert_registry_return]_vars

----------------------------------------------------------------------------
(* Properties of the Registry table conversion *)

\* The row converted by the step at hand.
StepRow == entries[ridx + 1]

KeyPathOf(entry) == root_name(entry.root) \o "\\" \o entry.key

\* C12: a Registry row that has a name but no value adds exactly one
\* operation, a CreateKey for the key path of the row, and no SetValue.
C12_NameWithoutValueCreatesKey ==
    [][(ridx' = ridx + 1 /\ StepRow.name # None /\ StepRow.value = None) =>
          operations' = Append(operations, [op |-> "CreateKey", key_path |-> KeyPathOf(StepRow)])
      ]_vars

\* C13: convert_to_registry_operations returns exactly one operation per
\* Registry row, in row order; the operation of a row is a SetValue exactly
\* when the row has a value and a CreateKey exactly when it has none; two
\* rows give two operations.
C13_OneOperationPerRow ==
    rpc = "done" =>
        /\ Len(operations) = Len(entries)
        /\ \A i \in 1..Len(entries) :
              /\ operations[i].key_path = KeyPathOf(entries[i])
              /\ (operations[i].op = "SetValue") = (entries[i].value # None)
              /\ (operations[i].op = "CreateKey") = (entries[i].value = None)

HexDigitSet == {"0", "1", "2", "3", "4", "5", "6", "7", "8", "9",
                "a", "b", "c", "d", "e", "f", "A", "B", "C", "D", "E", "F"}

Nibble(c) ==
    CASE c \in {"0"}      -> 0  [] c \in {"1"}      -> 1  [] c \in {"2"}      -> 2
      [] c \in {"3"}      -> 3  [] c \in {"4"}      -> 4  [] c \in {"5"}      -> 5
      [] c \in {"6"}      -> 6  [] c \in {"7"}      -> 7  [] c \in {"8"}      -> 8
      [] c \in {"9"}      -> 9  [] c \in {"a", "A"} -> 10 [] c \in {"b", "B"} -> 11
      [] c \in {"c", "C"} -> 12 [] c \in {"d", "D"} -> 13 [] c \in {"e", "E"} -> 14
      [] c \in {"f", "F"} -> 15

IsHexText(s) == Len(s) % 2 = 0 /\ \A i \in 1..Len(s) : s[i] \in HexDigitSet

HexBytes(s) == [i \in 1..(Len(s) \div 2) |-> 16 * Nibble(s[2 * i - 1]) + Nibble(s[2 * i])]

DecimalDigitSet == {"0", "1", "2", "3", "4", "5", "6", "7", "8", "9"}

RECURSIVE DropZeros(_)
DropZeros(s) == IF s # <<>> /\ s[1] = "0" THEN DropZeros(Tail(s)) ELSE s

U32MaxText == <<"4", "2", "9", "4", "9", "6", "7", "2", "9", "5">>

\* Digit strings of the same length compared as numbers.
LeqText(a, b) ==
    \/ a = b
    \/ \E i \in 1..Len(a) :
          /\ \A j \in 1..(i - 1) : a[j] = b[j]
          /\ Nibble(a[i]) < Nibble(b[i])

\* The text is a u32 in decimal: digits only, after an optional '+', with a
\* value of at most 4294967295.
IsU32Text(s) ==
    LET digits == IF s # <<>> /\ s[1] = "+" THEN Tail(s) ELSE s
        sig    == DropZeros(digits)
    IN  /\ digits # <<>>
        /\ \A i \in 1..Len(digits) : digits[i] \in DecimalDigitSet
        /\ \/ Len(sig) < 10
           \/ Len(sig) = 10 /\ LeqText(sig, U32MaxText)

\* The value of a digit string of at most nine digits.
RECURSIVE SmallValue(_)
SmallValue(s) ==
    IF s = <<>> THEN 0 ELSE 10 * SmallValue(SubSeq(s, 1, Len(s) - 1)) + Nibble(s[Len(s)])

\* The DWord d holds the number written by the text s.
HoldsNumber(d, s) ==
    LET digits == IF s # <<>> /\ s[1] = "+" THEN Tail(s) ELSE s
        sig    == DropZeros(digits)
    IN  IF Len(sig) < 10
        THEN d.hi < 32768 /\ d.hi * 65536 + d.lo = SmallValue(sig)
        ELSE sig = U32MaxText => d = [hi |-> 65535, lo |-> 65535]

StartsWith(s, prefix) == Len(prefix) <= Len(s) /\ SubSeq(s, 1, Len(prefix)) = prefix
After(s, n) == SubSeq(s, n + 1, Len(s))

ParseExamples ==
    /\ value_str = <<"#", "x", "4", "8", "6", "5", "6", "c", "6", "c", "6", "f">> =>
          parsed = [type |-> "Binary", data |-> <<72, 101, 108, 108, 111>>]
    /\ value_str = <<"#", "1", "2", "3">> =>
          parsed = [type |-> "DWord", data |-> [hi |-> 0, lo |-> 123]]
    /\ value_str = <<"p", "l", "a", "i", "n">> =>
          parsed = [type |-> "String", data |-> <<"p", "l", "a", "i", "n">>]

\* C15 as stated: parse_registry_value decodes every value string that
\* starts with '#x' to a Binary value, every value string that starts with
\* '#' but not '#x' to a DWord, and every other string to a String equal to
\* the input.
C15_PrefixDecides ==
    parsed.type # "None" =>
        /\ StartsWith(value_str, <<"#", "x">>) =>
              /\ parsed.type = "Binary"
              /\ IsHexText(After(value_str, 2)) => parsed.data = HexBytes(After(value_str, 2))
        /\ (StartsWith(value_str, <<"#">>) /\ ~StartsWith(value_str, <<"#", "x">>)) =>
              /\ parsed.type = "DWord"
              /\ IsU32Text(After(value_str, 1)) => HoldsNumber(parsed.data, After(value_str, 1))
        /\ ~StartsWith(value_str, <<"#">>) =>
              parsed = [type |-> "String", data |-> value_str]
        /\ ParseExamples

\* C15 amended: parse_registry_value decodes a value string to Binary
\* exactly when it is '#x' followed by an even number of hex digits, giving
\* the bytes they write; to a DWord exactly when it is '#', not followed by
\* 'x', followed by a decimal u32 (digits after an optional '+', at most
\* 4294967295), giving that number; and every other string, among them the
\* '#x' and '#' strings that do not decode, to a String equal to the input.
C15_PrefixAndDecodingDecide ==
    parsed.type # "None" =>
        LET isBinary == StartsWith(value_str, <<"#", "x">>) /\ IsHexText(After(value_str, 2))
            isDWord  == /\ StartsWith(value_str, <<"#">>)
                        /\ ~StartsWith(value_str, <<"#", "x">>)
                        /\ IsU32Text(After(value_str, 1))
        IN  /\ isBinary =>
                  parsed = [type |-> "Binary", data |-> HexBytes(After(value_str, 2))]
            /\ isDWord =>
                  /\ parsed.type = "DWord"
                  /\ HoldsNumber(parsed.data, After(value_str, 1))
            /\ (~isBinary /\ ~isDWord) =>
                  parsed = [type |-> "String", data |-> value_str]
            /\ ParseExamples

C15_Witness ==
    /\ value_str = <<"#", "x", "4", "g">>
    /\ parsed = [type |-> "String", data |-> <<"#", "x", "4", "g">>]

SixHives ==
    <<"HKEY_CLASSES_ROOT", "HKEY_CURRENT_USER", "HKEY_LOCAL_MACHINE", "HKEY_USERS",
      "HKEY_PERFORMANCE_DATA", "HKEY_CURRENT_CONFIG">>

KeyPathWith(name) == {name \o "\\" \o key : key \in {"Software\\App", ""}}

\* C16 as stated: format_registry_key maps the codes -2147483648 ..
\* -2147483643 to HKCR, HKCU, HKLM, HKU, HKPD, HKCC in this order, and
\* every other integer to UNKNOWN_ROOT.
C16_SixRootCodes ==
    key_path # "" =>
        /\ \A k \in 1..6 : root = MinI32 + (k - 1) => key_path \in KeyPathWith(SixHives[k])
        /\ root = -2147483646 => key_path \in KeyPathWith("HKEY_LOCAL_MACHINE")
        /\ (root < MinI32 + 0 \/ root > MinI32 + 5) => key_path \in KeyPathWith("UNKNOWN_ROOT")

\* C16 amended: format_registry_key maps the codes -2147483648 ..
\* -2147483643 to HKCR, HKCU, HKLM, HKU, HKPD, HKCC in this order, the
\* seventh code -2147483642 to HKEY_DYN_DATA, and every other integer to
\* UNKNOWN_ROOT; it always returns a key path.
C16_SevenRootCodes ==
    key_path # "" =>
        /\ \A k \in 1..6 : root = MinI32 + (k - 1) => key_path \in KeyPathWith(SixHives[k])
        /\ root = -2147483646 => key_path \in KeyPathWith("HKEY_LOCAL_MACHINE")
        /\ root = -2147483642 => key_path \in KeyPathWith("HKEY_DYN_DATA")
        /\ (root < MinI32 + 0 \/ root > MinI32 + 6) => key_path \in KeyPathWith("UNKNOWN_ROOT")

C16_Witness ==
    /\ root = -2147483642
    /\ key_path = "HKEY_DYN_DATA\\Software\\App"

----------------------------------------------------------------------------
(* The three extractions of MsiAnalyzer and the MSI handles they acquire    *)
(* (msi/analyzer.rs, msi/database.rs, the query functions of tables.rs).    *)
(* handles records every handle the Windows Installer API has given out,    *)
(* with the number of times MsiCloseHandle was called on it; db, view and   *)
(* records are the handles the wrappers alive in the extraction own.        *)

\* Most records a view gives out.
MaxRecords == 3

Extractions == {"extract_metadata", "extract_files", "extract_registry_operations"}

\* The tables an extraction queries, in the order of its queries.
queries_of(op) ==
    CASE op = "extract_metadata"            -> <<"Property">>
      [] op = "extract_files"               -> <<"File", "Directory">>
      [] op = "extract_registry_operations" -> <<"Registry">>

\* MsiCloseHandle
MsiCloseHandle(h, id) == [h EXCEPT ![id].closes = @ + 1]

\* A view whose drop closes nothing.
Drop_MsiView_leak(h, id) == h

\* impl Drop for MsiView
Drop_MsiView(h, id) == IF id # 0 THEN MsiCloseHandle(h, id) ELSE h

\* impl Drop for MsiDatabase
Drop_MsiDatabase(h, id) == IF id # 0 THEN MsiCloseHandle(h, id) ELSE h

\* Dropping a vector or an iterator of MsiRecord drops each record it
\* holds (impl Drop for MsiRecord).
RECURSIVE Drop_MsiRecords(_, _)
Drop_MsiRecords(h, ids) ==
    IF ids = <<>> THEN h
    ELSE Drop_MsiRecords(IF Head(ids) # 0 THEN MsiCloseHandle(h, Head(ids)) ELSE h, Tail(ids))

\* A query function returns an error to the extraction, h being the
\* handles once the locals of the query function are dropped:
\* extract_msi_metadata takes the arm of line 64, the other two return the
\* error with '?'; either way db is dropped.
query_failed(h, error) ==
    /\ handles' = Drop_MsiDatabase(h, db)
    /\ xres' = IF xop = "extract_metadata" THEN [tag |-> "Ok"] ELSE [tag |-> "Err", error |-> error]
    /\ epc' = "returned"
    /\ db' = 0
    /\ view' = 0
    /\ records' = <<>>
    /\ UNCHANGED <<xop, queries, opened>>

InitExtract ==
    /\ xop \in Extractions
    /\ epc = "validate"
    /\ queries = queries_of(xop)
    /\ handles = <<>>
    /\ db = 0
    /\ view = 0
    /\ records = <<>>
    /\ opened = "none"
    /\ xres = [tag |-> "None"]
    /\ IdleTables /\ IdleRegistry /\ IdleValue /\ IdleCore /\ IdleRest

\* common::validate_file(file_path).await? at the head of each extraction.
validate_file_first ==
    /\ epc = "validate"
    /\ \E valid \in BOOLEAN :
          IF valid
          THEN /\ epc' = IF xop = "extract_metadata" THEN "hash" ELSE "open"
               /\ UNCHANGED xres
          ELSE /\ epc' = "returned"
               /\ xres' = [tag |-> "Err", error |-> "validate"]
    /\ UNCHANGED <<xop, queries, handles, db, view, records, opened>>
    /\ UNCHANGED <<tableVars, registryVars, valueVars, coreVars, restVars>>

\* get_file_size and calculate_file_hash of extract_msi_metadata.
file_size_and_hash ==
    /\ epc = "hash"
    /\ \E read \in BOOLEAN :
          IF read
          THEN /\ epc' = "open"
               /\ UNCHANGED xres
          ELSE /\ epc' = "returned"
               /\ xres' = [tag |-> "Err", error |-> "io"]
    /\ UNCHANGED <<xop, queries, handles, db, view, records, opened>>
    /\ UNCHANGED <<tableVars, registryVars, valueVars, coreVars, restVars>>

\* MsiDatabase::open and what the extraction does with its result.
MsiDatabase_open ==
    /\ epc = "open"
    /\ \E success \in BOOLEAN :
          IF success
          THEN /\ handles' = Append(handles, [kind |-> "database", closes |-> 0])
               /\ db' = Len(handles) + 1
               /\ opened' = "ok"
               /\ epc' = "query"
               /\ UNCHANGED xres
          ELSE /\ opened' = "failed"
               /\ epc' = "returned"
               /\ xres' = IF xop = "extract_metadata"
                          THEN [tag |-> "Ok"]
                          ELSE [tag |-> "Err", error |-> "open"]
               /\ UNCHANGED <<handles, db>>
    /\ UNCHANGED <<xop, queries, view, records>>
    /\ UNCHANGED <<tableVars, registryVars, valueVars, coreVars, restVars>>

\* MsiDatabase::execute_query for the next query of the extraction.
execute_query ==
    /\ epc = "query"
    /\ queries # <<>>
    /\ \E outcome \in {"open_view_failed", "execute_failed", "executed"} :
          CASE outcome = "open_view_failed" ->
                  query_failed(handles, "open_view")
            [] outcome = "execute_failed" ->
                  query_failed(MsiCloseHandle(Append(handles, [kind |-> "view", closes |-> 0]),
                                              Len(handles) + 1),
                               "execute")
            [] outcome = "executed" ->
                  /\ handles' = Append(handles, [kind |-> "view", closes |-> 0])
                  /\ view' = Len(handles) + 1
                  /\ epc' = "collect"
                  /\ UNCHANGED <<xop, queries, db, records, opened, xres>>
    /\ UNCHANGED <<tableVars, registryVars, valueVars, coreVars, restVars>>

\* One iteration of the loop of MsiView::collect_records.
fetch ==
    /\ epc = "collect"
    /\ \E code \in {0, 259, 1627} :
          CASE code = 0 ->
                  /\ Len(records) < MaxRecords
                  /\ handles' = Append(handles, [kind |-> "record", closes |-> 0])
                  /\ records' = Append(records, Len(handles) + 1)
                  /\ UNCHANGED <<xop, epc, queries, db, view, opened, xres>>
            [] code = 259 ->
                  /\ epc' = "read"
                  /\ UNCHANGED <<xop, queries, handles, db, view, records, opened, xres>>
            [] OTHER ->
                  query_failed(Drop_MsiView(Drop_MsiRecords(handles, records), view), "fetch")
    /\ UNCHANGED <<tableVars, registryVars, valueVars, coreVars, restVars>>

\* One iteration of the loop over records of a query function: the fields
\* of the record are read, and the record is dropped.
read_record ==
    /\ epc = "read"
    /\ records # <<>>
    /\ \E fields_read \in BOOLEAN :
          IF fields_read
          THEN /\ handles' = Drop_MsiRecords(handles, <<Head(records)>>)
               /\ records' = Tail(records)
               /\ UNCHANGED <<xop, epc, queries, db, view, opened, xres>>
          ELSE query_failed(Drop_MsiView(Drop_MsiRecords(handles, records), view), "field")
    /\ UNCHANGED <<tableVars, registryVars, valueVars, coreVars, restVars>>

\* A query function returns its rows; after the last query the extraction
\* returns its result.
query_return ==
    /\ epc = "read"
    /\ records = <<>>
    /\ queries' = Tail(queries)
    /\ view' = 0
    /\ IF Tail(queries) = <<>>
       THEN /\ handles' = Drop_MsiDatabase(Drop_MsiView(handles, view), db)
            /\ db' = 0
            /\ epc' = "returned"
            /\ xres' = [tag |-> "Ok"]
       ELSE /\ handles' = Drop_MsiView(handles, view)
            /\ epc' = "query"
            /\ UNCHANGED <<db, xres>>
    /\ UNCHANGED <<xop, records, opened>>
    /\ UNCHANGED <<tableVars, registryVars, valueVars, coreVars, restVars>>

SpecExtract ==
    InitExtract /\ [][validate_file_first \/ file_size_and_hash \/ MsiDatabase_open
                      \/ execute_query \/ fetch \/ read_record \/ query_return]_vars

----------------------------------------------------------------------------
(* Properties of the MSI extractions *)

\* C19: when opening the MSI store fails, each of extract_metadata,
\* extract_files and extract_registry_operations returns that failure as an
\* error, and none of them returns a successful result.
C19_OpenFailurePropagates ==
    (epc = "returned" /\ opened = "failed") => xres = [tag |-> "Err", error |-> "open"]

\* C20: every MSI handle acquired during an extraction (database, view and
\* record handles) is closed exactly once by the time the extraction
\* returns, whichever way it returns, and no handle is ever closed twice.
C20_HandlesClosedOnce ==
    /\ \A i \in 1..Len(handles) : handles[i].closes <= 1
    /\ epc = "returned" => \A i \in 1..Len(handles) : handles[i].closes = 1

\* An extraction that fails at a field read with a database, two views and
\* records open or closed before.
C20_Witness ==
    /\ epc = "returned"
    /\ xres = [tag |-> "Err", error |-> "field"]
    /\ Len(handles) >= 5
    /\ \E i \in 1..Len(handles) : handles[i].kind = "record"
    /\ \A i \in 1..Len(handles) : handles[i].closes = 1

----------------------------------------------------------------------------
(* The other functions of AnalyzerFactory *)

\* AnalyzerFactory::get_all_analyzers
get_all_analyzers ==
    <<"WiX", "MSI", "PythonWheel", "MSIX", "InstallShield", "Squirrel", "NSIS", "InnoSetup">>

\* AnalyzerFactory::get_analyzer_by_format
get_analyzer_by_format(fmt) ==
    CASE fmt = "MSI"           -> Some("MSI")
      [] fmt = "WiX"           -> Some("WiX")
      [] fmt = "PythonWheel"   -> Some("PythonWheel")
      [] fmt = "MSIX"          -> Some("MSIX")
      [] fmt = "InstallShield" -> Some("InstallShield")
      [] fmt = "NSIS"          -> Some("NSIS")
      [] fmt = "Squirrel"      -> Some("Squirrel")
      [] fmt = "InnoSetup"     -> Some("InnoSetup")
      [] OTHER                 -> None

\* AnalyzerFactory::get_supported_formats
get_supported_formats ==
    <<"MSI", "WiX", "PythonWheel", "MSIX", "InstallShield", "NSIS", "Squirrel", "InnoSetup">>

\* C30: an analyzer returned by create_analyzer has one of the eight
\* formats of get_supported_formats, never Unknown; the probes are made in
\* the order of get_all_analyzers; get_analyzer_by_format gives an analyzer
\* of the requested format for each of the eight formats and none for
\* Unknown.
C30_NeverUnknown ==
    /\ result.tag = "Ok" =>
          /\ format(result.analyzer) \in Range(get_supported_formats)
          /\ format(result.analyzer) # "Unknown"
    /\ Cardinality(Range(get_supported_formats)) = 8
    /\ Len(probed) <= Len(get_all_analyzers)
    /\ \A i \in 1..Len(probed) : probed[i].analyzer = get_all_analyzers[i]
    /\ pc = "probing" => idx <= Len(get_all_analyzers)
    /\ \A f \in Range(get_supported_formats) :
          /\ get_analyzer_by_format(f) # None
          /\ format(get_analyzer_by_format(f)[1]) = f
    /\ get_analyzer_by_format("Unknown") = None

\* A zip archive named as a wheel: the analyzer returned is the wheel
\* analyzer, after the probes that come before it in get_all_analyzers.
C30_Witness ==
    /\ pc = "done"
    /\ file.header = "zip"
    /\ result = ResOk("PythonWheel")
    /\ Len(probed) = 3
    /\ get_analyzer_by_format(format(result.analyzer)) = Some("PythonWheel")

----------------------------------------------------------------------------
(* A dispatch-and-analyze run (cli/commands.rs handle_analyze): the         *)
(* analyzer create_analyzer returned is asked to analyze the same path.     *)

\* extract_files and extract_registry_operations of every analyzer:
\* validate_file first, then the work of the format, which may fail.
extract_rows(a, f) ==
    IF validate_file(f) # "ok" THEN {MetaErr(validate_file(f))}
    ELSE {[tag |-> "Ok", of |-> a], MetaErr("Generic")}

\* An analyze that makes all three calls and reports the last failure.
analyze_continues ==
    /\ pc = "done"
    /\ result.tag = "Ok"
    /\ apc # "returned"
    /\ LET k == Len(acalls) + 1 IN
          \E r \in (IF k = 1 THEN extract_metadata(result.analyzer, file)
                              ELSE extract_rows(result.analyzer, file)) :
              /\ acalls' = Append(acalls,
                     [fn        |-> <<"extract_metadata", "extract_files",
                                      "extract_registry_operations">>[k],
                      validated |-> validate_file(file),
                      res       |-> r])
              /\ IF k = 3
                 THEN /\ apc' = "returned"
                      /\ ares' = IF r.tag = "Err" THEN r
                                 ELSE [tag |-> "Ok", results |-> <<acalls[1].res, acalls[2].res, r>>]
                 ELSE /\ apc' = "running"
                      /\ UNCHANGED ares
    /\ UNCHANGED <<dispatchVars, protocolVars, peVars, scanVars, detectVars, msiVars, concVars>>

\* One call of InstallerAnalyzer::analyze, the trait's default method:
\* `let x = self.extract_..(file_path).await?;` three times, then the tuple.
analyze ==
    /\ pc = "done"
    /\ result.tag = "Ok"
    /\ apc # "returned"
    /\ LET k == Len(acalls) + 1 IN
          \E r \in (IF k = 1 THEN extract_metadata(result.analyzer, file)
                              ELSE extract_rows(result.analyzer, file)) :
              /\ acalls' = Append(acalls,
                     [fn        |-> <<"extract_metadata", "extract_files",
                                      "extract_registry_operations">>[k],
                      validated |-> validate_file(file),
                      res       |-> r])
              /\ IF r.tag = "Err"
                 THEN /\ apc' = "returned"
                      /\ ares' = r
                 ELSE IF k = 3
                 THEN /\ apc' = "returned"
                      /\ ares' = [tag |-> "Ok", results |-> <<acalls[1].res, acalls[2].res, r>>]
                 ELSE /\ apc' = "running"
                      /\ UNCHANGED ares
    /\ UNCHANGED <<dispatchVars, protocolVars, peVars, scanVars, detectVars, msiVars, concVars>>

\* The environment: the file is deleted while analyze is between two
\* awaits.
remove_file_analyzing ==
    /\ pc = "done"
    /\ result.tag = "Ok"
    /\ apc # "returned"
    /\ file.kind = "file"
    /\ file' = [file EXCEPT !.kind = "missing"]
    /\ UNCHANGED <<pc, idx, probed, result, protocolVars, peVars, scanVars, detectVars,
                   msiVars, restVars>>

SpecRun ==
    InitDispatch /\ [][create_analyzer \/ remove_file \/ analyze \/ remove_file_analyzing]_vars

\* C24: analyze calls extract_metadata, extract_files and
\* extract_registry_operations, each at most once and in this order, and
\* makes no call after one that failed; it returns the three results
\* exactly when all three calls succeeded, and otherwise the error of the
\* first call that failed.
C24_AnalyzeInOrder ==
    /\ Len(acalls) <= 3
    /\ \A i \in 1..Len(acalls) :
          /\ acalls[i].fn = <<"extract_metadata", "extract_files",
                              "extract_registry_operations">>[i]
          /\ i < Len(acalls) => acalls[i].res.tag = "Ok"
    /\ apc # "returned" =>
          /\ ares = NoResult
          /\ \A i \in 1..Len(acalls) : acalls[i].res.tag = "Ok"
    /\ apc = "returned" =>
          /\ acalls # <<>>
          /\ (ares.tag = "Ok") = (Len(acalls) = 3 /\ \A i \in 1..3 : acalls[i].res.tag = "Ok")
          /\ ares.tag = "Ok" => ares.results = <<acalls[1].res, acalls[2].res, acalls[3].res>>
          /\ ares.tag # "Ok" => ares = acalls[Len(acalls)].res /\ ares.tag = "Err"

C24_Witness ==
    /\ apc = "returned"
    /\ Len(acalls) = 2
    /\ acalls[1].res = MetaOk("NSIS")
    /\ acalls[2].fn = "extract_files"
    /\ ares = MetaErr("Generic")

\* C25: in a dispatch-and-analyze run the path is validated once, before
\* any extraction work: analyze's calls validate at most once between
\* them, and a validation that fails is not preceded by an extraction.
C25_ValidatedOnceFirst ==
    /\ Len(acalls) <= 1
    /\ \A i \in 1..Len(acalls) : acalls[i].validated # "ok" => i = 1

----------------------------------------------------------------------------
(* Extractions running concurrently (tests/performance_tests.rs,            *)
(* test_concurrent_analysis: one task per analysis).  cfiles is the MSI     *)
(* store behind each path, which the extractions open read-only; ctasks is  *)
(* what each task holds in its own frame (the extraction it runs, its path, *)
(* its MsiDatabase, the rows it has read, its result); chandles is every    *)
(* handle the Windows Installer API has given out, with the task that       *)
(* asked for it and the position of its read cursor.                        *)

\* The tasks running at the same time.
Tasks == {1, 2}

\* The paths the tasks work on.
StorePaths == {1, 2}

\* An API that hands out the handle it already has open on the path.
MsiOpenDatabaseW_cached(h, t, f) ==
    IF \E i \in 1..Len(h) : h[i].file = f /\ h[i].closes = 0
    THEN CHOOSE i \in 1..Len(h) : h[i].file = f /\ h[i].closes = 0
    ELSE Len(h) + 1

\* MsiOpenDatabaseW(path, MSIDBOPEN_READONLY, &mut handle): the handle it
\* stores is one not given out before.
MsiOpenDatabaseW(h, t, f) == Len(h) + 1

InitConcurrent ==
    /\ cfiles \in [StorePaths -> [openable : BOOLEAN, nrows : 0..MaxRecords]]
    /\ ctasks \in [Tasks -> [op : Extractions, file : StorePaths, pc : {"start"}, db : {0},
                             got : {<<>>}, res : {NoResult}]]
    /\ chandles = <<>>
    /\ IdleMsi /\ IdleCore /\ IdleRun

\* `let db = MsiDatabase::open(file_path)` in task t and what the
\* extraction does with a failure: extract_msi_metadata goes on without
\* the properties, the other two return the error.
task_open(t) ==
    LET me == ctasks[t]
        id == MsiOpenDatabaseW(chandles, t, me.file)
    IN  /\ me.pc = "start"
        /\ IF cfiles[me.file].openable
           THEN /\ chandles' = IF id > Len(chandles)
                               THEN Append(chandles, [owner |-> t, file |-> me.file,
                                                      closes |-> 0, cursor |-> 0])
                               ELSE chandles
                /\ ctasks' = [ctasks EXCEPT ![t].pc = "fetch", ![t].db = id]
           ELSE /\ ctasks' = [ctasks EXCEPT
                                ![t].pc = "returned",
                                ![t].res = IF me.op = "extract_metadata"
                                           THEN [tag |-> "Ok", rows |-> <<>>]
                                           ELSE [tag |-> "Err", error |-> "open"]]
                /\ UNCHANGED chandles
        /\ UNCHANGED <<cfiles, coreVars, msiVars, runVars>>

\* Task t fetches the next row through its MsiDatabase.
task_fetch(t) ==
    LET me == ctasks[t] IN
        /\ me.pc = "fetch"
        /\ chandles[me.db].cursor < cfiles[chandles[me.db].file].nrows
        /\ chandles' = [chandles EXCEPT ![me.db].cursor = @ + 1]
        /\ ctasks' = [ctasks EXCEPT
                        ![t].got = Append(@, <<chandles[me.db].file, chandles[me.db].cursor + 1>>)]
        /\ UNCHANGED <<cfiles, coreVars, msiVars, runVars>>

\* No more rows: the extraction of task t returns what it read, and its
\* MsiDatabase is dropped.
task_return(t) ==
    LET me == ctasks[t] IN
        /\ me.pc = "fetch"
        /\ chandles[me.db].cursor >= cfiles[chandles[me.db].file].nrows
        /\ chandles' = Drop_MsiDatabase(chandles, me.db)
        /\ ctasks' = [ctasks EXCEPT ![t].pc = "returned", ![t].db = 0,
                                    ![t].res = [tag |-> "Ok", rows |-> me.got]]
        /\ UNCHANGED <<cfiles, coreVars, msiVars, runVars>>

SpecConcurrent ==
    InitConcurrent /\ [][\E t \in Tasks : task_open(t) \/ task_fetch(t) \/ task_return(t)]_vars

\* The result of extraction op on a store when nothing else runs.
AloneResult(op, store, f) ==
    IF store.openable
    THEN [tag |-> "Ok", rows |-> [i \in 1..store.nrows |-> <<f, i>>]]
    ELSE IF op = "extract_metadata" THEN [tag |-> "Ok", rows |-> <<>>]
    ELSE [tag |-> "Err", error |-> "open"]

\* C21: extractions that run concurrently, on the same path or on
\* different paths, share no handle: the handle a task holds was opened
\* by that task, is open, and is held by no other task; no handle is
\* closed twice; a task that has returned has closed the handle it
\* opened; the stores are not changed; and the result of each task is the
\* result its extraction gives on its store when run alone.
C21_ConcurrentExtractionsIndependent ==
    /\ \A i \in 1..Len(chandles) : chandles[i].closes <= 1
    /\ \A t \in DOMAIN ctasks :
          /\ ctasks[t].db # 0 =>
                /\ chandles[ctasks[t].db].owner = t
                /\ chandles[ctasks[t].db].file = ctasks[t].file
                /\ chandles[ctasks[t].db].closes = 0
                /\ \A u \in DOMAIN ctasks : u # t => ctasks[u].db # ctasks[t].db
          /\ Cardinality({i \in 1..Len(chandles) : chandles[i].owner = t}) <= 1
          /\ ctasks[t].pc = "fetch" => ctasks[t].db # 0
          /\ ctasks[t].pc = "returned" =>
                /\ ctasks[t].db = 0
                /\ \A i \in 1..Len(chandles) : chandles[i].owner = t => chandles[i].closes = 1
                /\ cfiles[ctasks[t].file].openable => \E i \in 1..Len(chandles) : chandles[i].owner = t
                /\ ctasks[t].res = AloneResult(ctasks[t].op, cfiles[ctasks[t].file], ctasks[t].file)

\* Two extractions of the same store have both returned its two rows,
\* the second handle having been opened before the first was closed.
C21_Witness ==
    /\ ctasks # <<>>
    /\ ctasks[1].file = ctasks[2].file
    /\ ctasks[1].op = "extract_files" /\ ctasks[2].op = "extract_registry_operations"
    /\ ctasks[1].pc = "fetch" /\ ctasks[2].pc = "returned"
    /\ ctasks[1].got = <<<<ctasks[1].file, 1>>>>
    /\ ctasks[2].res = [tag |-> "Ok", rows |-> <<<<ctasks[2].file, 1>>, <<ctasks[2].file, 2>>>>]
    /\ Len(chandles) = 2
    /\ chandles[1].owner = 1 /\ chandles[1].closes = 0 /\ chandles[1].cursor = 1
    /\ chandles[2].owner = 2 /\ chandles[2].closes = 1

====
